---- MODULE Spec2Model ----
(***************************************************************************)
(* Model of the gan-web-bluetooth protocol stack: the cube connection      *)
(* (GanCubeClassicConnection), the Gen3/Gen4 protocol drivers with their   *)
(* move FIFO and move-history recovery, and the smart-timer connection.    *)
(*                                                                         *)
(* A notification frame is modelled by the fields the driver reads from it *)
(* with getBitWord (event type, data length, serial, face bits, ...), after*)
(* decryption.  One action is one JavaScript task: the synchronous run of  *)
(* an event handler up to its first wait on real I/O (a GATT write or      *)
(* stopNotifications), or the continuation that runs when that I/O settles.*)
(***************************************************************************)
EXTENDS Integers, Sequences, FiniteSets, TLC

(* ------------------------------------------------------------------ *)
(* Program constants                                                   *)
(* ------------------------------------------------------------------ *)
MinFrameLen == 16          \* onStateUpdate: eventMessage.byteLength >= 16
Gen3Magic == 85            \* 0x55
BufferLimit == 16          \* evictMoveBuffer: moveBuffer.length > 16
DebounceMs == 500          \* facelets debounce
NoSerial == -1             \* lastSerial / serial before the first facelets event

(* ------------------------------------------------------------------ *)
(* Bounds of the model                                                 *)
(* ------------------------------------------------------------------ *)
MaxFrames == 4             \* notifications handled in one behaviour of Spec
MaxInflight == 2           \* handlers suspended on a history-request write
MaxUserDisconnects == 2    \* calls of disconnect() by the application
MaxClock == 601            \* the host clock stops advancing here (ms)
ClockStep == 601           \* one Tick of the host clock (ms)
MaxPermK == 3              \* SpecPerm: the moves s .. s+MaxPermK arrive in any order
MaxDesyncFrames == 20      \* SpecDesync: notifications handled in one behaviour
MaxRejectFrames == 5       \* SpecFrames: notifications handled in one behaviour
MaxTimerFrames == 2        \* SpecTimer: notifications handled in one behaviour
MaxStartFrames == 3        \* SpecStart: notifications handled in one behaviour
MaxGen2Frames == 4         \* SpecGen2: notifications handled in one behaviour
MaxHwFrames == 5           \* SpecHw: notifications handled in one behaviour
MaxRequestFrames == 4      \* SpecRequest: notifications handled in one behaviour
MaxWriteFrames == 4        \* SpecWrite: notifications handled in one behaviour
MaxWriteFailures == 2      \* SpecWrite: history-request writes rejected in one behaviour
MaxCommands == 3           \* sendCubeCommand calls in one behaviour
MaxCommandFrames == 2      \* SpecCommand: notifications handled in one behaviour
MaxFieldFrames == 3        \* SpecFields: notifications handled in one behaviour
MaxFaceletFrames == 3      \* SpecFacelets: notifications handled in one behaviour
MaxCrcLen == 3             \* SpecCrc: length of the byte strings tried exhaustively
MaxVaried == 2             \* SpecKociemba: leading corners (edges) placed and turned freely
MaxFitMoves == 3           \* SpecFit: length of the move list
MaxInjectBuffer == 2       \* SpecInject: length of the move buffer
MaxMessageLen == 64        \* SpecEncrypter: length of the message
MaxBitLength == 33         \* SpecBitView: bit length asked of getBitWord
MaxElapsedFrames == 3      \* SpecElapsed: notifications handled in one behaviour

(* A nullable value: <<>> is null, <<v>> is the value v. *)
Null == <<>>
Some(v) == <<v>>

Min(a, b) == IF a < b THEN a ELSE b

(* The REQUEST_RESET message: the driver's opcode bytes, then the payload
   0x05 0x39 0x77 0x00 0x00 0x01 0x23 0x45 0x67 0x89 0xAB. *)
ResetPayload(opcode) == opcode \o <<5, 57, 119, 0, 0, 1, 35, 69, 103, 137, 171>>

(* x & 0xFF for the (small, possibly negative) integers of the drivers. *)
And8(x) == x % 256

RECURSIVE Count(_, _)
Count(x, s) == IF s = <<>> THEN 0 ELSE (IF Head(s) = x THEN 1 ELSE 0) + Count(x, Tail(s))

VARIABLES
    dev,                \* which driver / session this connection uses
    clock,              \* now()
    lastSerial,         \* driver.lastSerial
    lastMoveTimestamp,  \* driver.lastMoveTimestamp (Gen2)
    cubeTimestamp,      \* driver.cubeTimestamp (Gen2): the accumulated cube clock
    serial,             \* driver.serial (Gen3/Gen4)
    lastLocalTimestamp, \* driver.lastLocalTimestamp (Gen3/Gen4), nullable
    moveBuffer,         \* driver.moveBuffer (Gen3/Gen4)
    hwInfo,             \* driver.hwInfo (Gen4): tag -> value
    events,             \* what the subscribers of events$ have received
    sink,               \* the Subject: "open", "errored" (isStopped) or "closed"
    stateListener,      \* 'characteristicvaluechanged' listener registered
    disconnectListener, \* 'gattserverdisconnected' listener registered
    connected,          \* device.gatt.connected
    oplog,              \* the calls a disconnect makes, in order
    errors,             \* where an exception / promise rejection was raised
    stopPending,        \* disconnect() calls waiting for stopNotifications()
    inflight,           \* frame handlers suspended on a history-request write
    writes,             \* history requests written to the command characteristic
    nframes,            \* notifications handled so far
    ncalls,             \* disconnect() calls made by the application so far
    writeFailures,      \* per rejected history-request write: the requests written by then
    commandLog,         \* per sendCubeCommand call: its type and the message written (or Null)
    arg,                \* the argument of a library function called on its own (or Null)
    result              \* what that call returned (Null before the call)

gen2Vars == <<lastMoveTimestamp, cubeTimestamp>>
driverVars == <<lastSerial, serial, lastLocalTimestamp, moveBuffer, hwInfo,
                lastMoveTimestamp, cubeTimestamp>>
sessionVars == <<events, sink, stateListener, disconnectListener, connected,
                 oplog, errors, stopPending>>
vars == <<dev, clock, lastSerial, serial, lastLocalTimestamp, moveBuffer, hwInfo,
          lastMoveTimestamp, cubeTimestamp, events, sink, stateListener, disconnectListener, connected, oplog,
          errors, stopPending, inflight, writes, nframes, ncalls, writeFailures, commandLog,
          arg, result>>

(* ------------------------------------------------------------------ *)
(* The session as a value, so that one task can thread it through the  *)
(* calls it makes.                                                     *)
(* ------------------------------------------------------------------ *)
Sess == [events |-> events, sink |-> sink, stateListener |-> stateListener,
         disconnectListener |-> disconnectListener, connected |-> connected,
         oplog |-> oplog, errors |-> errors, stopPending |-> stopPending]

SetSess(s) ==
    /\ events' = s.events
    /\ sink' = s.sink
    /\ stateListener' = s.stateListener
    /\ disconnectListener' = s.disconnectListener
    /\ connected' = s.connected
    /\ oplog' = s.oplog
    /\ errors' = s.errors
    /\ stopPending' = s.stopPending

(* Subject.next(e): throws ObjectUnsubscribedError on a closed subject, does
   nothing on a stopped (errored) one, else hands e to the subscribers. *)
SubjectNext(s, e, site) ==
    IF s.sink = "closed" THEN [s |-> [s EXCEPT !.errors = @ \cup {site}], thrown |-> TRUE]
    ELSE IF s.sink = "errored" THEN [s |-> s, thrown |-> FALSE]
    ELSE [s |-> [s EXCEPT !.events = Append(@, e)], thrown |-> FALSE]

(* cubeEvents.forEach(e => this.events$.next(e)): the first throw ends it. *)
RECURSIVE Deliver(_, _)
Deliver(s, evs) ==
    IF evs = <<>> THEN s
    ELSE LET r == SubjectNext(s, Head(evs), "deliver")
         IN IF r.thrown THEN r.s ELSE Deliver(r.s, Tail(evs))


(* onDisconnect calling stopNotifications() before it emits DISCONNECT. *)
OnDisconnectStopsFirst(s, t) ==
    LET s1 == [s EXCEPT !.disconnectListener = FALSE, !.stateListener = FALSE,
                        !.oplog = @ \o <<"removeListeners", "stopNotifications">>]
        r == SubjectNext(s1, [type |-> "DISCONNECT", timestamp |-> t], "disconnect")
    IN IF r.thrown THEN r
       ELSE [s |-> [r.s EXCEPT !.sink = "closed", !.oplog = @ \o <<"next", "unsubscribe">>],
             thrown |-> FALSE]

(* onDisconnect without events$.unsubscribe(): the subject stays open. *)
OnDisconnectKeepsOpen(s, t) ==
    LET s1 == [s EXCEPT !.disconnectListener = FALSE, !.stateListener = FALSE,
                        !.oplog = Append(@, "removeListeners")]
        r == SubjectNext(s1, [type |-> "DISCONNECT", timestamp |-> t], "disconnect")
    IN IF r.thrown THEN r
       ELSE [s |-> [r.s EXCEPT !.oplog = @ \o <<"next", "stopNotifications">>],
             thrown |-> FALSE]

(* onDisconnect: runs to its end in one task (its only wait is the promise it
   returns).  A closed subject makes next() throw, which leaves the rest undone. *)
OnDisconnect(s, t) ==
    LET s1 == [s EXCEPT !.disconnectListener = FALSE, !.stateListener = FALSE,
                        !.oplog = Append(@, "removeListeners")]
        r == SubjectNext(s1, [type |-> "DISCONNECT", timestamp |-> t], "disconnect")
    IN IF r.thrown THEN r
       ELSE [s |-> [r.s EXCEPT !.sink = "closed",
                               !.oplog = @ \o <<"next", "unsubscribe", "stopNotifications">>],
             thrown |-> FALSE]

(* conn.disconnect() up to its await: a rejected onDisconnect() rejects it too,
   otherwise it waits for stopNotifications() to settle. *)
ConnDisconnect(s, t) ==
    LET r == OnDisconnect([s EXCEPT !.oplog = Append(@, "disconnect")], t)
    IN IF r.thrown THEN r.s ELSE [r.s EXCEPT !.stopPending = @ + 1]

(* ------------------------------------------------------------------ *)
(* Notification frames, by the fields the drivers read                 *)
(* ------------------------------------------------------------------ *)
Frame0 == [len |-> 20, magic |-> Gen3Magic, type |-> 0, dataLength |-> 1, serial |-> 0,
           cubeTs |-> 0, dir |-> 0, faceBits |-> 0, start |-> 0, nibbles |-> <<>>,
           hw |-> "", hwVer |-> "", swVer |-> "", gyroBit |-> 0, level |-> 0,
           g2moves |-> <<>>,
           cp |-> <<0, 1, 2, 3, 4, 5, 6>>, co |-> <<0, 0, 0, 0, 0, 0, 0>>,
           ep |-> <<0, 1, 2, 3, 4, 5, 6, 7, 8, 9, 10>>,
           eo |-> <<0, 0, 0, 0, 0, 0, 0, 0, 0, 0, 0>>]

HwDate == 250
HwName == 252
HwSoftware == 253
HwHardware == 254

(* Array.indexOf on a table of distinct numbers: 0-based, -1 when absent. *)
IndexOf(tbl, v) ==
    IF \E i \in DOMAIN tbl : tbl[i] = v
    THEN (CHOOSE i \in DOMAIN tbl : tbl[i] = v) - 1
    ELSE -1

MoveFaceTable == <<2, 32, 8, 1, 16, 4>>
HistoryFaceTable == <<1, 5, 3, 0, 4, 2>>

(* ------------------------------------------------------------------ *)
(* Gen3 / Gen4 move FIFO                                               *)
(* ------------------------------------------------------------------ *)
(* The bytes requestMoveHistory puts in the command message. *)
HistoryRequest(ser, cnt) ==
    LET s1 == IF ser % 2 = 0 THEN And8(ser - 1) ELSE ser
        c1 == IF cnt % 2 = 1 THEN cnt + 1 ELSE cnt
        c2 == Min(c1, s1 + 1)
    IN [serial |-> s1 % 256, count |-> c2 % 256]

(* evictMoveBuffer with the gap test off by one (diff > 2): a head that is two
   serials after lastSerial is evicted as well. *)
RECURSIVE EvictLoopSkipsOne(_, _, _)
EvictLoopSkipsOne(buf, last, out) ==
    IF buf = <<>>
    THEN [buffer |-> buf, lastSerial |-> last, evicted |-> out, gap |-> FALSE, diff |-> 0]
    ELSE LET bufferHead == Head(buf)
             diff == IF last = NoSerial THEN 1 ELSE And8(bufferHead.serial - last)
         IN IF diff > 2
            THEN [buffer |-> buf, lastSerial |-> last, evicted |-> out, gap |-> TRUE,
                  diff |-> diff]
            ELSE EvictLoopSkipsOne(Tail(buf), bufferHead.serial, Append(out, bufferHead))

(* evictMoveBuffer with an if in place of the while: at most the head of the
   buffer is evicted. *)
EvictLoopOnce(buf, last, out) ==
    IF buf = <<>>
    THEN [buffer |-> buf, lastSerial |-> last, evicted |-> out, gap |-> FALSE, diff |-> 0]
    ELSE LET bufferHead == Head(buf)
             diff == IF last = NoSerial THEN 1 ELSE And8(bufferHead.serial - last)
         IN IF diff > 1
            THEN [buffer |-> buf, lastSerial |-> last, evicted |-> out, gap |-> TRUE,
                  diff |-> diff]
            ELSE [buffer |-> Tail(buf), lastSerial |-> bufferHead.serial,
                  evicted |-> Append(out, bufferHead), gap |-> FALSE, diff |-> 0]

(* The while loop of evictMoveBuffer: evict from the head until the buffer is
   empty or its head is more than one serial after lastSerial. *)
RECURSIVE EvictLoop(_, _, _)
EvictLoop(buf, last, out) ==
    IF buf = <<>>
    THEN [buffer |-> buf, lastSerial |-> last, evicted |-> out, gap |-> FALSE, diff |-> 0]
    ELSE LET bufferHead == Head(buf)
             diff == IF last = NoSerial THEN 1 ELSE And8(bufferHead.serial - last)
         IN IF diff > 1
            THEN [buffer |-> buf, lastSerial |-> last, evicted |-> out, gap |-> TRUE,
                  diff |-> diff]
            ELSE EvictLoop(Tail(buf), bufferHead.serial, Append(out, bufferHead))

(* isSerialInRange accepting every serial. *)
isSerialInRangeAlways(start, end, ser, closedStart, closedEnd) == TRUE

isSerialInRange(start, end, ser, closedStart, closedEnd) ==
    /\ And8(end - start) >= And8(ser - start)
    /\ (closedStart \/ And8(start - ser) > 0)
    /\ (closedEnd \/ And8(end - ser) > 0)

(* injectMissedMoveToBuffer putting the history move at the tail of the buffer
   (push) instead of its head (unshift). *)
injectMissedMoveAtTail(buf, last, cur, move) ==
    IF Len(buf) > 0
    THEN IF \E i \in DOMAIN buf : buf[i].serial = move.serial THEN buf
         ELSE IF ~isSerialInRange(last, Head(buf).serial, move.serial, FALSE, FALSE) THEN buf
         ELSE IF move.serial = And8(Head(buf).serial - 1) THEN buf \o <<move>>
         ELSE buf
    ELSE IF isSerialInRange(last, cur, move.serial, FALSE, TRUE) THEN <<move>> ELSE buf

(* injectMissedMoveToBuffer with the range of the empty-buffer case open at
   the current serial too. *)
injectMissedMoveOpenEnd(buf, last, cur, move) ==
    IF Len(buf) > 0
    THEN IF \E i \in DOMAIN buf : buf[i].serial = move.serial THEN buf
         ELSE IF ~isSerialInRange(last, Head(buf).serial, move.serial, FALSE, FALSE) THEN buf
         ELSE IF move.serial = And8(Head(buf).serial - 1) THEN <<move>> \o buf
         ELSE buf
    ELSE IF isSerialInRange(last, cur, move.serial, FALSE, FALSE) THEN <<move>> ELSE buf

(* injectMissedMoveToBuffer putting any missed move on the buffer head, also
   one that is not the predecessor of the head. *)
injectMissedMoveAnyMissed(buf, last, cur, move) ==
    IF Len(buf) > 0
    THEN IF \E i \in DOMAIN buf : buf[i].serial = move.serial THEN buf
         ELSE IF ~isSerialInRange(last, Head(buf).serial, move.serial, FALSE, FALSE) THEN buf
         ELSE <<move>> \o buf
    ELSE IF isSerialInRange(last, cur, move.serial, FALSE, TRUE) THEN <<move>> ELSE buf

(* injectMissedMoveToBuffer: the buffer after offering it one history move. *)
injectMissedMoveToBuffer(buf, last, cur, move) ==
    IF Len(buf) > 0
    THEN IF \E i \in DOMAIN buf : buf[i].serial = move.serial THEN buf
         ELSE IF ~isSerialInRange(last, Head(buf).serial, move.serial, FALSE, FALSE) THEN buf
         ELSE IF move.serial = And8(Head(buf).serial - 1) THEN <<move>> \o buf
         ELSE buf
    ELSE IF isSerialInRange(last, cur, move.serial, FALSE, TRUE) THEN <<move>> ELSE buf

(* nibble i (0-based) of a history frame; past the end of the frame the bits
   parse to NaN, which no face table holds. *)
NibbleAt(f, i) == IF i + 1 <= Len(f.nibbles) THEN f.nibbles[i + 1] ELSE [face |-> 8, dir |-> 0]

(* The for loop of the MOVE_HISTORY branch, from index i. *)
RECURSIVE InjectFrom(_, _, _, _, _, _)
InjectFrom(i, count, f, buf, last, cur) ==
    IF i >= count THEN buf
    ELSE LET nb == NibbleAt(f, i)
             face == IndexOf(HistoryFaceTable, nb.face)
             move == [type |-> "MOVE", serial |-> And8(f.start - i), timestamp |-> clock,
                      localTimestamp |-> Null, cubeTimestamp |-> Null,
                      face |-> face, direction |-> nb.dir, recovered |-> TRUE]
             buf1 == IF face >= 0 THEN injectMissedMoveToBuffer(buf, last, cur, move) ELSE buf
         IN InjectFrom(i + 1, count, f, buf1, last, cur)

(* FinishEvict with the overflow test off by one (length > 17). *)
FinishEvictLate(s, buf, evicted, withConn) ==
    LET s1 == IF withConn /\ Len(buf) > BufferLimit + 1 THEN ConnDisconnect(s, clock) ELSE s
    IN Deliver(s1, evicted)

(* What a frame handler does once evictMoveBuffer's loop is over: the overflow
   bail-out (only with a connection), then onStateUpdate delivers the events. *)
FinishEvict(s, buf, evicted, withConn) ==
    LET s1 == IF withConn /\ Len(buf) > BufferLimit THEN ConnDisconnect(s, clock) ELSE s
    IN Deliver(s1, evicted)

Listening == stateListener /\ connected

(* ------------------------------------------------------------------ *)
(* Facelets                                                            *)
(* ------------------------------------------------------------------ *)
CORNER_FACELET_MAP ==
    << <<8, 9, 20>>, <<6, 18, 38>>, <<0, 36, 47>>, <<2, 45, 11>>,
       <<29, 26, 15>>, <<27, 44, 24>>, <<33, 53, 42>>, <<35, 17, 51>> >>

EDGE_FACELET_MAP ==
    << <<5, 10>>, <<7, 19>>, <<3, 37>>, <<1, 46>>, <<32, 16>>, <<28, 25>>,
       <<30, 43>>, <<34, 52>>, <<23, 12>>, <<21, 41>>, <<50, 39>>, <<48, 14>> >>

Faces == <<"U", "R", "F", "D", "L", "B">>

(* sum(arr) *)
RECURSIVE Sum(_)
Sum(arr) == IF arr = <<>> THEN 0 ELSE Head(arr) + Sum(Tail(arr))

(* facelets.join('') *)
RECURSIVE Join(_)
Join(chars) == IF chars = <<>> THEN "" ELSE Head(chars) \o Join(Tail(chars))

(* The corner loop giving all three facelets of a corner the colour of the
   first sticker of the cubie. *)
RECURSIVE SetCornersFirstSticker(_, _, _, _)
SetCornersFirstSticker(k, cp, co, facelets) ==
    IF k = 24 THEN facelets
    ELSE LET i == k \div 3
             p == k % 3
         IN SetCornersFirstSticker(k + 1, cp, co,
                [facelets EXCEPT ![CORNER_FACELET_MAP[i + 1][((p + co[i + 1]) % 3) + 1]] =
                    Faces[(CORNER_FACELET_MAP[cp[i + 1] + 1][1] \div 9) + 1]])

(* The corner loop of toKociembaFacelets from step k = 3 * i + p on; arrays are
   0-based in the code, the tables and cp, co 1-based here. *)
RECURSIVE SetCorners(_, _, _, _)
SetCorners(k, cp, co, facelets) ==
    IF k = 24 THEN facelets
    ELSE LET i == k \div 3
             p == k % 3
         IN SetCorners(k + 1, cp, co,
                [facelets EXCEPT ![CORNER_FACELET_MAP[i + 1][((p + co[i + 1]) % 3) + 1]] =
                    Faces[(CORNER_FACELET_MAP[cp[i + 1] + 1][p + 1] \div 9) + 1]])

(* The edge loop writing each sticker to the other facelet of its edge. *)
RECURSIVE SetEdgesFlipped(_, _, _, _)
SetEdgesFlipped(k, ep, eo, facelets) ==
    IF k = 24 THEN facelets
    ELSE LET i == k \div 2
             p == k % 2
         IN SetEdgesFlipped(k + 1, ep, eo,
                [facelets EXCEPT ![EDGE_FACELET_MAP[i + 1][((p + eo[i + 1] + 1) % 2) + 1]] =
                    Faces[(EDGE_FACELET_MAP[ep[i + 1] + 1][p + 1] \div 9) + 1]])

(* The edge loop of toKociembaFacelets from step k = 2 * i + p on. *)
RECURSIVE SetEdges(_, _, _, _)
SetEdges(k, ep, eo, facelets) ==
    IF k = 24 THEN facelets
    ELSE LET i == k \div 2
             p == k % 2
         IN SetEdges(k + 1, ep, eo,
                [facelets EXCEPT ![EDGE_FACELET_MAP[i + 1][((p + eo[i + 1]) % 2) + 1]] =
                    Faces[(EDGE_FACELET_MAP[ep[i + 1] + 1][p + 1] \div 9) + 1]])

(* CORNER_FACELET_MAP[cp[i]] or EDGE_FACELET_MAP[ep[i]] is undefined for an
   index outside the table, and indexing it raises a TypeError. *)
KociembaThrows(cp, ep) ==
    \/ \E i \in DOMAIN cp : cp[i] \notin 0 .. 7
    \/ \E i \in DOMAIN ep : ep[i] \notin 0 .. 11

(* The facelets array of toKociembaFacelets before the join, indexed 0..53. *)
KociembaArray(cp, co, ep, eo) ==
    SetEdges(0, ep, eo, SetCorners(0, cp, co, [i \in 0 .. 53 |-> Faces[(i \div 9) + 1]]))

(* The characters of the facelets array in order, as a sequence. *)
KociembaChars(cp, co, ep, eo) ==
    LET facelets == KociembaArray(cp, co, ep, eo)
    IN [i \in 1 .. 54 |-> facelets[i - 1]]

toKociembaFacelets(cp, co, ep, eo) == Join(KociembaChars(cp, co, ep, eo))

(* The facelets branch filling in the last corner and the last edge of the
   solved cube where the code derives them from the sums. *)
DecodeStateNoParity(f) ==
    [CP |-> f.cp \o <<7>>,
     CO |-> f.co \o <<0>>,
     EP |-> f.ep \o <<11>>,
     EO |-> f.eo \o <<0>>]

(* The cube state of a FACELETS frame: 7 corners and 11 edges from the wire,
   the last of each from the sums. *)
DecodeState(f) ==
    [CP |-> f.cp \o <<28 - Sum(f.cp)>>,
     CO |-> f.co \o <<(3 - (Sum(f.co) % 3)) % 3>>,
     EP |-> f.ep \o <<66 - Sum(f.ep)>>,
     EO |-> f.eo \o <<(2 - (Sum(f.eo) % 2)) % 2>>]

FaceletsThrows(f) == KociembaThrows(DecodeState(f).CP, DecodeState(f).EP)

(* The FACELETS event of a frame handled at time t (when nothing throws). *)
FaceletsEvent(f, t) ==
    LET st == DecodeState(f)
    IN [type |-> "FACELETS", serial |-> f.serial, timestamp |-> t,
        facelets |-> toKociembaFacelets(st.CP, st.CO, st.EP, st.EO),
        state |-> st]

(* The end of a facelets handler: the TypeError of toKociembaFacelets rejects
   handleStateEvent and with it onStateUpdate; else the event is delivered. *)
FinishFacelets(s, throws, evs) ==
    IF throws THEN [s EXCEPT !.errors = @ \cup {"facelets"}] ELSE Deliver(s, evs)


HwTags == {HwDate, HwName, HwSoftware, HwHardware}

(* The branch of handleStateEvent a frame takes, from each driver's if-chain;
   "none" falls through every test. *)
Gen2Branch(f) ==
    IF f.type = 1 THEN "gyro"
    ELSE IF f.type = 2 THEN "move"
    ELSE IF f.type = 4 THEN "facelets"
    ELSE IF f.type = 5 THEN "hardware"
    ELSE IF f.type = 9 THEN "battery"
    ELSE IF f.type = 13 THEN "disconnect"
    ELSE "none"

Gen3Branch(f) ==
    IF ~(f.magic = Gen3Magic /\ f.dataLength > 0) THEN "none"
    ELSE IF f.type = 1 THEN "move"
    ELSE IF f.type = 6 THEN "history"
    ELSE IF f.type = 2 THEN "facelets"
    ELSE IF f.type = 7 THEN "hardware"
    ELSE IF f.type = 16 THEN "battery"
    ELSE IF f.type = 17 THEN "disconnect"
    ELSE "none"

Gen4Branch(f) ==
    IF f.type = 1 THEN "move"
    ELSE IF f.type = 209 THEN "history"
    ELSE IF f.type = 237 THEN "facelets"
    ELSE IF f.type >= 250 /\ f.type <= 254 THEN "hardware"
    ELSE IF f.type = 236 THEN "gyro"
    ELSE IF f.type = 239 THEN "battery"
    ELSE IF f.type = 234 THEN "disconnect"
    ELSE "none"

(* onStateUpdate hands the driver only frames of at least MinFrameLen bytes. *)
Branch(f) ==
    IF f.len < MinFrameLen THEN "short"
    ELSE IF dev = "gen2" THEN Gen2Branch(f)
    ELSE IF dev = "gen3" THEN Gen3Branch(f)
    ELSE Gen4Branch(f)

Remove(seq, i) == SubSeq(seq, 1, i - 1) \o SubSeq(seq, i + 1, Len(seq))

(* ------------------------------------------------------------------ *)
(* Gen3 / Gen4 frame handlers                                          *)
(* ------------------------------------------------------------------ *)
(* MOVE: append to the FIFO, evict; a gap at the head requests the move
   history and the handler waits for that write.  The field recovered of a
   MOVE event records where the move was decoded from (TRUE: a MOVE_HISTORY
   frame); the event's move string is not modelled. *)
NotifyMove(f) ==
    /\ dev \in {"gen3", "gen4"}
    /\ Listening
    /\ Branch(f) = "move"
    /\ nframes' = nframes + 1
    /\ IF lastSerial = NoSerial
       THEN UNCHANGED <<lastSerial, serial, lastLocalTimestamp, moveBuffer, sessionVars,
                        inflight, writes>>
       ELSE LET face == IndexOf(MoveFaceTable, f.faceBits)
                move == [type |-> "MOVE", serial |-> f.serial, timestamp |-> clock,
                         localTimestamp |-> Some(clock), cubeTimestamp |-> Some(f.cubeTs),
                         face |-> face, direction |-> f.dir, recovered |-> FALSE]
                buf1 == IF face >= 0 THEN Append(moveBuffer, move) ELSE moveBuffer
                ev == EvictLoop(buf1, lastSerial, <<>>)
            IN /\ lastLocalTimestamp' = Some(clock)
               /\ serial' = f.serial
               /\ moveBuffer' = ev.buffer
               /\ lastSerial' = ev.lastSerial
               /\ IF ev.gap
                  THEN /\ Len(inflight) < MaxInflight
                       /\ writes' = Append(writes,
                                           HistoryRequest(Head(ev.buffer).serial, ev.diff))
                       /\ inflight' = Append(inflight, [kind |-> "move",
                                                        evicted |-> ev.evicted,
                                                        serial |-> f.serial,
                                                        throws |-> FALSE])
                       /\ UNCHANGED sessionVars
                  ELSE /\ SetSess(FinishEvict(Sess, ev.buffer, ev.evicted, TRUE))
                       /\ UNCHANGED <<inflight, writes>>
    /\ UNCHANGED <<dev, arg, result, commandLog, writeFailures, clock, hwInfo, gen2Vars, ncalls>>

(* MOVE_HISTORY: offer every move of the frame to the FIFO, newest first, then
   evict without a connection: no history request, no overflow bail-out. *)
NotifyHistory(f) ==
    /\ dev \in {"gen3", "gen4"}
    /\ Listening
    /\ Branch(f) = "history"
    /\ nframes' = nframes + 1
    /\ LET count == (f.dataLength - 1) * 2
           buf1 == InjectFrom(0, count, f, moveBuffer, lastSerial, serial)
           ev == EvictLoop(buf1, lastSerial, <<>>)
       IN /\ moveBuffer' = ev.buffer
          /\ lastSerial' = ev.lastSerial
          /\ SetSess(FinishEvict(Sess, ev.buffer, ev.evicted, FALSE))
    /\ UNCHANGED <<dev, arg, result, commandLog, writeFailures, clock, serial, lastLocalTimestamp, hwInfo, gen2Vars, inflight,
                   writes, ncalls>>

(* The FACELETS branch asking for the history also when the serial of the
   snapshot is 0. *)
NotifyFaceletsAtZero(f) ==
    /\ dev \in {"gen3", "gen4"}
    /\ Listening
    /\ Branch(f) = "facelets"
    /\ nframes' = nframes + 1
    /\ serial' = f.serial
    /\ LET debounced == /\ lastSerial # NoSerial
                        /\ lastLocalTimestamp # Null
                        /\ clock - lastLocalTimestamp[1] > DebounceMs
           diff == And8(f.serial - lastSerial)
           request == debounced /\ diff > 0
           startSerial == IF moveBuffer # <<>> THEN Head(moveBuffer).serial
                          ELSE And8(f.serial + 1)
           throws == FaceletsThrows(f)
           evs == IF throws THEN <<>> ELSE <<FaceletsEvent(f, clock)>>
       IN IF request
          THEN /\ Len(inflight) < MaxInflight
               /\ writes' = Append(writes, HistoryRequest(startSerial, diff + 1))
               /\ inflight' = Append(inflight, [kind |-> "facelets", evicted |-> evs,
                                                serial |-> f.serial, throws |-> throws])
               /\ UNCHANGED <<lastSerial, sessionVars>>
          ELSE /\ lastSerial' = IF lastSerial = NoSerial THEN f.serial ELSE lastSerial
               /\ SetSess(FinishFacelets(Sess, throws, evs))
               /\ UNCHANGED <<inflight, writes>>
    /\ UNCHANGED <<dev, arg, result, commandLog, writeFailures, clock, lastLocalTimestamp, moveBuffer, hwInfo, gen2Vars, ncalls>>

(* FACELETS: remember the serial; when no move was seen for DebounceMs and the
   serial ran ahead of lastSerial, request the move history and wait for the
   write; then emit the FACELETS event. *)
NotifyFacelets(f) ==
    /\ dev \in {"gen3", "gen4"}
    /\ Listening
    /\ Branch(f) = "facelets"
    /\ nframes' = nframes + 1
    /\ serial' = f.serial
    /\ LET debounced == /\ lastSerial # NoSerial
                        /\ lastLocalTimestamp # Null
                        /\ clock - lastLocalTimestamp[1] > DebounceMs
           diff == And8(f.serial - lastSerial)
           request == debounced /\ diff > 0 /\ f.serial # 0
           startSerial == IF moveBuffer # <<>> THEN Head(moveBuffer).serial
                          ELSE And8(f.serial + 1)
           throws == FaceletsThrows(f)
           evs == IF throws THEN <<>> ELSE <<FaceletsEvent(f, clock)>>
       IN IF request
          THEN /\ Len(inflight) < MaxInflight
               /\ writes' = Append(writes, HistoryRequest(startSerial, diff + 1))
               /\ inflight' = Append(inflight, [kind |-> "facelets", evicted |-> evs,
                                                serial |-> f.serial, throws |-> throws])
               /\ UNCHANGED <<lastSerial, sessionVars>>
          ELSE /\ lastSerial' = IF lastSerial = NoSerial THEN f.serial ELSE lastSerial
               /\ SetSess(FinishFacelets(Sess, throws, evs))
               /\ UNCHANGED <<inflight, writes>>
    /\ UNCHANGED <<dev, arg, result, commandLog, writeFailures, clock, lastLocalTimestamp, moveBuffer, hwInfo, gen2Vars, ncalls>>

(* The history-request write of a suspended handler settles (its failure is
   swallowed): the handler runs to its end and onStateUpdate delivers. *)
WriteDone(i) ==
    /\ i \in DOMAIN inflight
    /\ inflight' = Remove(inflight, i)
    /\ IF inflight[i].kind = "move"
       THEN /\ SetSess(FinishEvict(Sess, moveBuffer, inflight[i].evicted, TRUE))
            /\ UNCHANGED lastSerial
       ELSE /\ lastSerial' = IF lastSerial = NoSerial THEN inflight[i].serial ELSE lastSerial
            /\ SetSess(FinishFacelets(Sess, inflight[i].throws, inflight[i].evicted))
    /\ UNCHANGED <<dev, arg, result, commandLog, writeFailures, clock, serial, lastLocalTimestamp, moveBuffer, hwInfo, gen2Vars,
                   writes, nframes, ncalls>>

(* A rejected history-request write that is not caught: the frame handler
   rejects where it awaited the request, and onStateUpdate delivers nothing. *)
WriteFailedRaises(i) ==
    /\ i \in DOMAIN inflight
    /\ Len(writeFailures) < MaxWriteFailures
    /\ writeFailures' = Append(writeFailures, Len(writes))
    /\ inflight' = Remove(inflight, i)
    /\ SetSess([Sess EXCEPT !.errors = @ \cup {"write"}])
    /\ UNCHANGED <<dev, arg, result, commandLog, clock, lastSerial, serial, lastLocalTimestamp, moveBuffer, hwInfo,
                   gen2Vars, writes, nframes, ncalls>>

(* The history-request write of a suspended handler is rejected (encrypt or
   writeValue fails): requestMoveHistory's catch swallows the rejection, and
   the handler runs to its end as it does after a successful write. *)
WriteFailed(i) ==
    /\ i \in DOMAIN inflight
    /\ Len(writeFailures) < MaxWriteFailures
    /\ writeFailures' = Append(writeFailures, Len(writes))
    /\ inflight' = Remove(inflight, i)
    /\ IF inflight[i].kind = "move"
       THEN /\ SetSess(FinishEvict(Sess, moveBuffer, inflight[i].evicted, TRUE))
            /\ UNCHANGED lastSerial
       ELSE /\ lastSerial' = IF lastSerial = NoSerial THEN inflight[i].serial ELSE lastSerial
            /\ SetSess(FinishFacelets(Sess, inflight[i].throws, inflight[i].evicted))
    /\ UNCHANGED <<dev, arg, result, commandLog, clock, serial, lastLocalTimestamp, moveBuffer, hwInfo, gen2Vars,
                   writes, nframes, ncalls>>

(* ------------------------------------------------------------------ *)
(* Gen2 frame handlers                                                 *)
(* ------------------------------------------------------------------ *)
(* The Gen2 loop giving every move the host timestamp, not only the freshest. *)
RECURSIVE Gen2MovesAllStamped(_, _, _, _)
Gen2MovesAllStamped(i, f, acc, out) ==
    IF i < 0 THEN [cubeTimestamp |-> acc, events |-> out]
    ELSE LET m == f.g2moves[i + 1]
             elapsed == IF m.elapsed = 0 THEN clock - lastMoveTimestamp ELSE m.elapsed
             acc1 == acc + elapsed
         IN Gen2MovesAllStamped(i - 1, f, acc1,
                      Append(out, [type |-> "MOVE", serial |-> And8(f.serial - i),
                                   timestamp |-> clock,
                                   localTimestamp |-> Some(clock),
                                   cubeTimestamp |-> Some(acc1),
                                   face |-> m.face, direction |-> m.dir,
                                   recovered |-> FALSE]))

(* The Gen2 loop emitting the moves newest first. *)
RECURSIVE Gen2MovesNewestFirst(_, _, _, _)
Gen2MovesNewestFirst(i, f, acc, out) ==
    IF i < 0 THEN [cubeTimestamp |-> acc, events |-> out]
    ELSE LET m == f.g2moves[i + 1]
             elapsed == IF m.elapsed = 0 THEN clock - lastMoveTimestamp ELSE m.elapsed
             acc1 == acc + elapsed
         IN Gen2MovesNewestFirst(i - 1, f, acc1,
                      <<[type |-> "MOVE", serial |-> And8(f.serial - i),
                         timestamp |-> clock,
                         localTimestamp |-> IF i = 0 THEN Some(clock) ELSE Null,
                         cubeTimestamp |-> Some(acc1),
                         face |-> m.face, direction |-> m.dir,
                         recovered |-> FALSE]>> \o out)

(* The for loop of the Gen2 MOVE branch, from index i down to 0: the frame
   holds the last seven moves, newest first; an elapsed time of 0 is replaced
   by the host time since the last move frame. *)
RECURSIVE Gen2Moves(_, _, _, _)
Gen2Moves(i, f, acc, out) ==
    IF i < 0 THEN [cubeTimestamp |-> acc, events |-> out]
    ELSE LET m == f.g2moves[i + 1]
             elapsed == IF m.elapsed = 0 THEN clock - lastMoveTimestamp ELSE m.elapsed
             acc1 == acc + elapsed
         IN Gen2Moves(i - 1, f, acc1,
                      Append(out, [type |-> "MOVE", serial |-> And8(f.serial - i),
                                   timestamp |-> clock,
                                   localTimestamp |-> IF i = 0 THEN Some(clock) ELSE Null,
                                   cubeTimestamp |-> Some(acc1),
                                   face |-> m.face, direction |-> m.dir,
                                   recovered |-> FALSE]))

(* Gen2 MOVE: up to seven moves since lastSerial are decoded from the frame. *)
NotifyMove2(f) ==
    /\ dev = "gen2"
    /\ Listening
    /\ Branch(f) = "move"
    /\ nframes' = nframes + 1
    /\ IF lastSerial = NoSerial
       THEN UNCHANGED <<lastSerial, gen2Vars, sessionVars>>
       ELSE LET diff == Min(And8(f.serial - lastSerial), 7)
                r == Gen2Moves(diff - 1, f, cubeTimestamp, <<>>)
            IN /\ lastSerial' = f.serial
               /\ IF diff > 0
                  THEN /\ cubeTimestamp' = r.cubeTimestamp
                       /\ lastMoveTimestamp' = clock
                       /\ SetSess(Deliver(Sess, r.events))
                  ELSE UNCHANGED <<gen2Vars, sessionVars>>
    /\ UNCHANGED <<dev, arg, result, commandLog, writeFailures, clock, serial, lastLocalTimestamp, moveBuffer, hwInfo, inflight,
                   writes, ncalls>>

(* Gen2 FACELETS: the first one sets lastSerial. *)
NotifyFacelets2(f) ==
    /\ dev = "gen2"
    /\ Listening
    /\ Branch(f) = "facelets"
    /\ nframes' = nframes + 1
    /\ lastSerial' = IF lastSerial = NoSerial THEN f.serial ELSE lastSerial
    /\ SetSess(FinishFacelets(Sess, FaceletsThrows(f),
                              IF FaceletsThrows(f) THEN <<>> ELSE <<FaceletsEvent(f, clock)>>))
    /\ UNCHANGED <<dev, arg, result, commandLog, writeFailures, clock, serial, lastLocalTimestamp, moveBuffer, hwInfo, gen2Vars,
                   inflight, writes, ncalls>>

(* createCommandMessage without its default branch: a command of any other
   type yields the zero-filled message. *)
createCommandMessageNoDefault(d, type) ==
    IF d = "gen2"
    THEN CASE type = "REQUEST_FACELETS" -> Some([len |-> 20, bytes |-> <<4>>])
           [] type = "REQUEST_HARDWARE" -> Some([len |-> 20, bytes |-> <<5>>])
           [] type = "REQUEST_BATTERY" -> Some([len |-> 20, bytes |-> <<9>>])
           [] type = "REQUEST_RESET" -> Some([len |-> 20, bytes |-> ResetPayload(<<10>>)])
           [] OTHER -> Some([len |-> 20, bytes |-> <<>>])
    ELSE IF d = "gen3"
    THEN CASE type = "REQUEST_FACELETS" -> Some([len |-> 16, bytes |-> <<104, 1>>])
           [] type = "REQUEST_HARDWARE" -> Some([len |-> 16, bytes |-> <<104, 4>>])
           [] type = "REQUEST_BATTERY" -> Some([len |-> 16, bytes |-> <<104, 7>>])
           [] type = "REQUEST_RESET" -> Some([len |-> 16, bytes |-> ResetPayload(<<104, 5>>)])
           [] OTHER -> Some([len |-> 16, bytes |-> <<>>])
    ELSE CASE type = "REQUEST_FACELETS" -> Some([len |-> 20, bytes |-> <<221, 4, 0, 237>>])
           [] type = "REQUEST_HARDWARE" -> Some([len |-> 20, bytes |-> <<223, 3>>])
           [] type = "REQUEST_BATTERY" -> Some([len |-> 20, bytes |-> <<221, 4, 0, 239>>])
           [] type = "REQUEST_RESET" -> Some([len |-> 20, bytes |-> ResetPayload(<<210, 13>>)])
           [] OTHER -> Some([len |-> 20, bytes |-> <<>>])

(* createCommandMessage of the three drivers: the length of the zero-filled
   message and the bytes set at its start (trailing zeros left out), or Null
   (undefined) for a command type the switch has no case for. *)
createCommandMessage(d, type) ==
    IF d = "gen2"
    THEN CASE type = "REQUEST_FACELETS" -> Some([len |-> 20, bytes |-> <<4>>])
           [] type = "REQUEST_HARDWARE" -> Some([len |-> 20, bytes |-> <<5>>])
           [] type = "REQUEST_BATTERY" -> Some([len |-> 20, bytes |-> <<9>>])
           [] type = "REQUEST_RESET" -> Some([len |-> 20, bytes |-> ResetPayload(<<10>>)])
           [] OTHER -> Null
    ELSE IF d = "gen3"
    THEN CASE type = "REQUEST_FACELETS" -> Some([len |-> 16, bytes |-> <<104, 1>>])
           [] type = "REQUEST_HARDWARE" -> Some([len |-> 16, bytes |-> <<104, 4>>])
           [] type = "REQUEST_BATTERY" -> Some([len |-> 16, bytes |-> <<104, 7>>])
           [] type = "REQUEST_RESET" -> Some([len |-> 16, bytes |-> ResetPayload(<<104, 5>>)])
           [] OTHER -> Null
    ELSE CASE type = "REQUEST_FACELETS" -> Some([len |-> 20, bytes |-> <<221, 4, 0, 237>>])
           [] type = "REQUEST_HARDWARE" -> Some([len |-> 20, bytes |-> <<223, 3>>])
           [] type = "REQUEST_BATTERY" -> Some([len |-> 20, bytes |-> <<221, 4, 0, 239>>])
           [] type = "REQUEST_RESET" -> Some([len |-> 20, bytes |-> ResetPayload(<<210, 13>>)])
           [] OTHER -> Null

(* sendCubeCommand(command): the driver builds the message (the Gen4 driver
   empties hwInfo for REQUEST_HARDWARE), and only if there is one it is
   encrypted and written to the command characteristic. *)
SendCubeCommand(type) ==
    /\ dev \in {"gen2", "gen3", "gen4"}
    /\ connected
    /\ Len(commandLog) < MaxCommands
    /\ hwInfo' = IF dev = "gen4" /\ type = "REQUEST_HARDWARE"
                 THEN [t \in HwTags |-> Null] ELSE hwInfo
    /\ commandLog' = Append(commandLog, [type |-> type,
                                         written |-> createCommandMessage(dev, type)])
    /\ UNCHANGED <<dev, arg, result, writeFailures, clock, lastSerial, serial, lastLocalTimestamp,
                   moveBuffer, gen2Vars, sessionVars, inflight, writes, nframes, ncalls>>

(* sendCubeCommand({type: 'REQUEST_HARDWARE'}) on a Gen4 cube. *)
RequestHardware ==
    /\ dev = "gen4"
    /\ SendCubeCommand("REQUEST_HARDWARE")

(* The Gen4 HARDWARE branch emitting as soon as three of the tags are held. *)
NotifyHardwareEarly(f) ==
    /\ dev \in {"gen2", "gen3", "gen4"}
    /\ Listening
    /\ Branch(f) = "hardware"
    /\ nframes' = nframes + 1
    /\ LET info == IF f.type \in HwTags THEN [hwInfo EXCEPT ![f.type] = Some(f.hw)]
                   ELSE hwInfo
           ev == [type |-> "HARDWARE", timestamp |-> clock,
                  hardwareName |-> info[HwName], hardwareVersion |-> info[HwHardware],
                  softwareVersion |-> info[HwSoftware], productDate |-> info[HwDate],
                  gyroSupported |-> info[HwName] = Some("GAN12uiM")]
       IN /\ hwInfo' = info
          /\ SetSess(Deliver(Sess, IF Cardinality({t \in HwTags : info[t] # Null}) >= 3
                                   THEN <<ev>> ELSE <<>>))
    /\ UNCHANGED <<dev, arg, result, commandLog, writeFailures, clock, lastSerial, serial, lastLocalTimestamp, moveBuffer, gen2Vars,
                   inflight, writes, ncalls>>

(* HARDWARE.  Gen4 collects four sub-frames in hwInfo and emits once it holds
   all four; Gen2 and Gen3 decode one frame. *)
NotifyHardware(f) ==
    /\ dev \in {"gen2", "gen3", "gen4"}
    /\ Listening
    /\ Branch(f) = "hardware"
    /\ nframes' = nframes + 1
    /\ IF dev = "gen4"
       THEN LET info == IF f.type \in HwTags THEN [hwInfo EXCEPT ![f.type] = Some(f.hw)]
                        ELSE hwInfo
                ev == [type |-> "HARDWARE", timestamp |-> clock,
                       hardwareName |-> info[HwName], hardwareVersion |-> info[HwHardware],
                       softwareVersion |-> info[HwSoftware], productDate |-> info[HwDate],
                       gyroSupported |-> info[HwName] = Some("GAN12uiM")]
            IN /\ hwInfo' = info
               /\ SetSess(Deliver(Sess, IF \A t \in HwTags : info[t] # Null
                                        THEN <<ev>> ELSE <<>>))
       ELSE /\ SetSess(Deliver(Sess, <<[type |-> "HARDWARE", timestamp |-> clock,
                                        hardwareName |-> Some(f.hw),
                                        hardwareVersion |-> Some(f.hwVer),
                                        softwareVersion |-> Some(f.swVer),
                                        productDate |-> Null,
                                        gyroSupported |-> (dev = "gen2" /\ f.gyroBit # 0)]>>))
            /\ UNCHANGED hwInfo
    /\ UNCHANGED <<dev, arg, result, commandLog, writeFailures, clock, lastSerial, serial, lastLocalTimestamp, moveBuffer, gen2Vars,
                   inflight, writes, ncalls>>

NotifyBattery(f) ==
    /\ dev \in {"gen2", "gen3", "gen4"}
    /\ Listening
    /\ Branch(f) = "battery"
    /\ nframes' = nframes + 1
    /\ SetSess(Deliver(Sess, <<[type |-> "BATTERY", timestamp |-> clock,
                                batteryLevel |-> Min(f.level, 100)]>>))
    /\ UNCHANGED <<dev, arg, result, commandLog, writeFailures, clock, driverVars, inflight, writes, ncalls>>

(* GYRO (Gen2, Gen4); the quaternion and velocity payload is not modelled. *)
NotifyGyro(f) ==
    /\ dev \in {"gen2", "gen4"}
    /\ Listening
    /\ Branch(f) = "gyro"
    /\ nframes' = nframes + 1
    /\ SetSess(Deliver(Sess, <<[type |-> "GYRO", timestamp |-> clock]>>))
    /\ UNCHANGED <<dev, arg, result, commandLog, writeFailures, clock, driverVars, inflight, writes, ncalls>>

(* DISCONNECT frame: the driver calls conn.disconnect() and returns no event. *)
NotifyDisconnect(f) ==
    /\ dev \in {"gen2", "gen3", "gen4"}
    /\ Listening
    /\ Branch(f) = "disconnect"
    /\ nframes' = nframes + 1
    /\ SetSess(ConnDisconnect(Sess, clock))
    /\ UNCHANGED <<dev, arg, result, commandLog, writeFailures, clock, driverVars, inflight, writes, ncalls>>

(* A frame no test accepts: too short for onStateUpdate, or through every
   branch of the driver. *)
NotifyIgnored(f) ==
    /\ dev \in {"gen2", "gen3", "gen4"}
    /\ Listening
    /\ Branch(f) \in {"short", "none"}
    /\ nframes' = nframes + 1
    /\ UNCHANGED <<dev, arg, result, commandLog, writeFailures, clock, driverVars, sessionVars, inflight, writes, ncalls>>

(* ------------------------------------------------------------------ *)
(* Cube connection                                                     *)
(* ------------------------------------------------------------------ *)
(* The application calls conn.disconnect(). *)
UserDisconnect ==
    /\ dev \in {"gen2", "gen3", "gen4"}
    /\ ncalls < MaxUserDisconnects
    /\ ncalls' = ncalls + 1
    /\ SetSess(ConnDisconnect(Sess, clock))
    /\ UNCHANGED <<dev, arg, result, commandLog, writeFailures, clock, driverVars, inflight, writes, nframes>>

(* stopNotifications() settled: disconnect() resumes after its await. *)
DisconnectDone ==
    /\ dev \in {"gen2", "gen3", "gen4"}
    /\ stopPending > 0
    /\ stopPending' = stopPending - 1
    /\ IF connected
       THEN connected' = FALSE /\ oplog' = Append(oplog, "gatt.disconnect")
       ELSE UNCHANGED <<connected, oplog>>
    /\ UNCHANGED <<dev, arg, result, commandLog, writeFailures, clock, driverVars, events, sink, stateListener, disconnectListener,
                   errors, inflight, writes, nframes, ncalls>>

(* The link drops: 'gattserverdisconnected' runs onDisconnect if it is still
   registered. *)
TransportDrop ==
    /\ dev \in {"gen2", "gen3", "gen4"}
    /\ connected
    /\ LET s == [Sess EXCEPT !.connected = FALSE]
       IN SetSess(IF disconnectListener THEN OnDisconnect(s, clock).s ELSE s)
    /\ UNCHANGED <<dev, arg, result, commandLog, writeFailures, clock, driverVars, inflight, writes, nframes, ncalls>>

(* The host clock advances. *)
Tick ==
    /\ clock + ClockStep <= MaxClock
    /\ clock' = clock + ClockStep
    /\ UNCHANGED <<dev, arg, result, commandLog, writeFailures, driverVars, sessionVars, inflight, writes, nframes, ncalls>>

(* ------------------------------------------------------------------ *)
(* Smart timer                                                         *)
(* ------------------------------------------------------------------ *)
(* A timer frame is the sequence of its bytes. *)
TimerMagic == 254          \* 0xFE
TimerStopped == 4          \* GanTimerState.STOPPED
TimerDisconnectState == 0  \* GanTimerState.DISCONNECT
CrcInit == 65535           \* 0xFFFF
CrcPoly == 4129            \* 0x1021
Word16 == 65536            \* 2^16: half the width of a JavaScript bitwise operand

(* a ^ b on non-negative integers. *)
RECURSIVE Xor(_, _)
Xor(a, b) ==
    IF a = 0 THEN b
    ELSE IF b = 0 THEN a
    ELSE (((a % 2) + (b % 2)) % 2) + 2 * Xor(a \div 2, b \div 2)

(* A 32-bit JavaScript integer, held as its two 16-bit halves. *)
Halves == [hi : 0 .. Word16 - 1, lo : 0 .. Word16 - 1]

(* crc << 1 *)
Shl1(crc) == [hi |-> (crc.hi * 2 + crc.lo \div 32768) % Word16,
              lo |-> (crc.lo * 2) % Word16]

(* The inner loop of crc16ccit, j passes: the shift, then ^ 0x1021 when bit 15
   was set. *)
CrcShift(crc, j) ==
    LET pass[c \in Halves, k \in 0 .. 8] ==
            IF k = 0 THEN c
            ELSE pass[IF (c.lo \div 32768) % 2 = 1
                      THEN [Shl1(c) EXCEPT !.lo = Xor(@, CrcPoly)]
                      ELSE Shl1(c), k - 1]
    IN pass[crc, j]

(* The outer loop over the bytes: crc ^= byte << 8, then the inner loop. *)
CrcLoop(bytes, crc) ==
    LET at[i \in 0 .. Len(bytes), c \in Halves] ==
            IF i = Len(bytes) THEN c
            ELSE at[i + 1, CrcShift([c EXCEPT !.lo = Xor(@, bytes[i + 1] * 256)], 8)]
    IN at[0, crc]

(* crc16ccit starting from 0 (the XMODEM variant). *)
crc16xmodem(buff) == CrcLoop(buff, [hi |-> 0, lo |-> 0]).lo

(* return crc & 0xFFFF *)
crc16ccit(buff) == CrcLoop(buff, [hi |-> 0, lo |-> CrcInit]).lo

(* validateEventData reading the CRC word big-endian. *)
validateEventDataBigEndian(data) ==
    IF Len(data) = 0 \/ data[1] # TimerMagic THEN FALSE
    ELSE IF Len(data) < 2 THEN FALSE
    ELSE LET n == Len(data)
             eventCRC == 256 * data[n - 1] + data[n]
             calculatedCRC == crc16ccit(SubSeq(data, 3, n - 2))
         IN eventCRC = calculatedCRC

(* validateEventData: magic 0xFE and the little-endian CRC in the last two
   bytes over the bytes from index 2 up to them; a RangeError of getUint16 is
   caught and makes the frame invalid. *)
validateEventData(data) ==
    IF Len(data) = 0 \/ data[1] # TimerMagic THEN FALSE
    ELSE IF Len(data) < 2 THEN FALSE
    ELSE LET n == Len(data)
             eventCRC == data[n - 1] + 256 * data[n]
             calculatedCRC == crc16ccit(SubSeq(data, 3, n - 2))
         IN eventCRC = calculatedCRC

makeTime(min, sec, msec) ==
    [minutes |-> min, seconds |-> sec, milliseconds |-> msec,
     asTimestamp |-> 60000 * min + 1000 * sec + msec]

(* makeTimeFromRaw reading the milliseconds word big-endian. *)
makeTimeFromRawBigEndian(data, offset) ==
    makeTime(data[offset + 1], data[offset + 2], 256 * data[offset + 3] + data[offset + 4])

makeTimeFromRaw(data, offset) ==
    makeTime(data[offset + 1], data[offset + 2], data[offset + 3] + 256 * data[offset + 4])

(* buildTimerEvent reads byte 3 and, for STOPPED, bytes 4..7: on a shorter
   frame getUint8 / getUint16 throws. *)
BuildThrows(data) ==
    \/ Len(data) < 4
    \/ data[4] = TimerStopped /\ Len(data) < 8

buildTimerEvent(data) ==
    [type |-> "TIMER", state |-> data[4],
     recordedTime |-> IF data[4] = TimerStopped THEN Some(makeTimeFromRaw(data, 4))
                      ELSE Null]

(* Subject.error(e): throws on a closed subject, does nothing on a stopped
   one, else stops the subject: it delivers nothing from then on. *)
SubjectError(s, site) ==
    IF s.sink = "closed" THEN [s EXCEPT !.errors = @ \cup {site}]
    ELSE IF s.sink = "errored" THEN s
    ELSE [s EXCEPT !.sink = "errored"]

(* onStateChanged: one notification of the timer's state characteristic. *)
TimerNotify(data) ==
    /\ dev = "timer"
    /\ Listening
    /\ nframes' = nframes + 1
    /\ SetSess(IF validateEventData(data)
               THEN IF BuildThrows(data) THEN [Sess EXCEPT !.errors = @ \cup {"build"}]
                    ELSE SubjectNext(Sess, buildTimerEvent(data), "deliver").s
               ELSE SubjectError(Sess, "deliver"))
    /\ UNCHANGED <<dev, arg, result, commandLog, writeFailures, clock, driverVars, inflight, writes, ncalls>>

(* disconnectAction up to its await: both listeners are removed and
   stopNotifications() is called. *)
TimerDisconnectStart(s) ==
    [s EXCEPT !.disconnectListener = FALSE, !.stateListener = FALSE,
              !.oplog = @ \o <<"disconnect", "removeListeners", "stopNotifications">>,
              !.stopPending = @ + 1]

(* The application calls the timer connection's disconnect(). *)
TimerDisconnect ==
    /\ dev = "timer"
    /\ ncalls < MaxUserDisconnects
    /\ ncalls' = ncalls + 1
    /\ SetSess(TimerDisconnectStart(Sess))
    /\ UNCHANGED <<dev, arg, result, commandLog, writeFailures, clock, driverVars, inflight, writes, nframes>>

(* stopNotifications() settled (a rejection is swallowed): disconnectAction
   emits DISCONNECT, closes the subject and closes the GATT connection. *)
TimerDisconnectDone ==
    /\ dev = "timer"
    /\ stopPending > 0
    /\ LET s0 == [Sess EXCEPT !.stopPending = @ - 1]
           r == SubjectNext(s0, [type |-> "TIMER", state |-> TimerDisconnectState,
                                 recordedTime |-> Null], "disconnect")
           s1 == [r.s EXCEPT !.sink = "closed", !.oplog = @ \o <<"next", "unsubscribe">>]
       IN SetSess(IF r.thrown THEN r.s
                  ELSE IF s1.connected
                       THEN [s1 EXCEPT !.connected = FALSE,
                                       !.oplog = Append(@, "gatt.disconnect")]
                       ELSE s1)
    /\ UNCHANGED <<dev, arg, result, commandLog, writeFailures, clock, driverVars, inflight, writes, nframes, ncalls>>

(* The link to the timer drops: 'gattserverdisconnected' runs disconnectAction
   if it is still registered. *)
TimerTransportDrop ==
    /\ dev = "timer"
    /\ connected
    /\ LET s == [Sess EXCEPT !.connected = FALSE]
       IN SetSess(IF disconnectListener THEN TimerDisconnectStart(s) ELSE s)
    /\ UNCHANGED <<dev, arg, result, commandLog, writeFailures, clock, driverVars, inflight, writes, nframes, ncalls>>

(* A frame the timer sends: the magic, a length byte, a sequence byte, the
   payload and the CRC of everything after the first two bytes. *)
MkTimerFrame(payload) ==
    LET body == <<1>> \o payload
        crc == crc16ccit(body)
    IN <<TimerMagic, Len(body) + 4>> \o body \o <<crc % 256, crc \div 256>>

(* ------------------------------------------------------------------ *)
(* What the device sends                                               *)
(* ------------------------------------------------------------------ *)
(* The event-type byte the cube of generation dev puts in a frame. *)
TypeCode(kind) ==
    IF dev = "gen2"
    THEN CASE kind = "gyro" -> 1 [] kind = "move" -> 2 [] kind = "facelets" -> 4
           [] kind = "hardware" -> 5 [] kind = "battery" -> 9 [] kind = "disconnect" -> 13
           [] OTHER -> 0
    ELSE IF dev = "gen3"
    THEN CASE kind = "move" -> 1 [] kind = "history" -> 6 [] kind = "facelets" -> 2
           [] kind = "hardware" -> 7 [] kind = "battery" -> 16 [] kind = "disconnect" -> 17
           [] OTHER -> 0
    ELSE CASE kind = "move" -> 1 [] kind = "history" -> 209 [] kind = "facelets" -> 237
           [] kind = "gyro" -> 236 [] kind = "battery" -> 239 [] kind = "disconnect" -> 234
           [] OTHER -> 0

MkMove(s, bits) ==
    [Frame0 EXCEPT !.type = TypeCode("move"), !.serial = s, !.faceBits = bits,
                   !.cubeTs = 100, !.dataLength = 6]
MkHistory(start, nibs) ==
    [Frame0 EXCEPT !.type = TypeCode("history"), !.start = start, !.nibbles = nibs,
                   !.dataLength = (Len(nibs) \div 2) + 1]
MkFacelets(s) == [Frame0 EXCEPT !.type = TypeCode("facelets"), !.serial = s,
                                !.dataLength = 13]
MkOther(kind) == [Frame0 EXCEPT !.type = TypeCode(kind), !.level = 150, !.hw = "GANic",
                                !.hwVer = "1.0", !.swVer = "1.1", !.gyroBit = 1]
MkHwInfo(tag) == [Frame0 EXCEPT !.type = tag,
                                !.hw = IF tag = HwName THEN "GAN12uiM"
                                       ELSE IF tag = HwDate THEN "2023-05-17"
                                       ELSE "1.0"]

(* A Gen2 MOVE frame: serial s and the same move (face, elapsed ms) in each
   of its seven slots. *)
MkMove2(s, face, elapsed) ==
    [Frame0 EXCEPT !.type = TypeCode("move"), !.serial = s,
                   !.g2moves = [i \in 1 .. 7 |-> [face |-> face, dir |-> 0,
                                                  elapsed |-> elapsed]]]

GoodNibble == [face |-> 1, dir |-> 0]      \* U
BadNibble == [face |-> 6, dir |-> 0]       \* no face

(* ------------------------------------------------------------------ *)
(* Specification                                                       *)
(* ------------------------------------------------------------------ *)
InitDriver(devs) ==
    /\ dev \in devs
    /\ clock = 0
    /\ lastSerial = NoSerial
    /\ serial = NoSerial
    /\ lastLocalTimestamp = Null
    /\ moveBuffer = <<>>
    /\ hwInfo = [t \in HwTags |-> Null]
    /\ lastMoveTimestamp = 0
    /\ cubeTimestamp = 0
    /\ events = <<>>
    /\ sink = "open"
    /\ stateListener = TRUE
    /\ disconnectListener = TRUE
    /\ connected = TRUE
    /\ oplog = <<>>
    /\ errors = {}
    /\ stopPending = 0
    /\ inflight = <<>>
    /\ writes = <<>>
    /\ nframes = 0
    /\ ncalls = 0
    /\ writeFailures = <<>>
    /\ commandLog = <<>>

(* A connection to a device of one of the kinds devs, no library function
   being called on its own. *)
InitWith(devs) ==
    /\ InitDriver(devs)
    /\ arg = Null
    /\ result = Null

(* No device: the application calls an exported function with one of args. *)
InitApply(args) ==
    /\ InitDriver({"none"})
    /\ arg \in args
    /\ result = Null

(* What a call of an exported function leaves alone. *)
connectionVars == <<dev, clock, driverVars, sessionVars, inflight, writes, nframes, ncalls,
                    writeFailures, commandLog>>

(* toKociembaFacelets(arg.cp, arg.co, arg.ep, arg.eo) called on its own: the
   string returned and, for counting, its characters. *)
CallKociemba ==
    /\ dev = "none"
    /\ result = Null
    /\ result' = Some([facelets |-> toKociembaFacelets(arg.cp, arg.co, arg.ep, arg.eo),
                       chars |-> KociembaChars(arg.cp, arg.co, arg.ep, arg.eo)])
    /\ UNCHANGED <<arg, connectionVars>>

(* ------------------------------------------------------------------ *)
(* GanProtocolMessageView                                              *)
(* ------------------------------------------------------------------ *)
(* The constructor: every byte as its eight binary digits, joined. *)
MessageBits(message) ==
    [k \in 1 .. 8 * Len(message) |->
        (message[((k - 1) \div 8) + 1] \div (2 ^ (7 - ((k - 1) % 8)))) % 2]

(* String.prototype.slice(from, to): a negative index counts from the end,
   both are clamped to the string, and the result is empty when from >= to. *)
Slice(bits, from, to) ==
    LET n == Len(bits)
        clamp(x) == IF x < 0 THEN (IF n + x < 0 THEN 0 ELSE n + x) ELSE Min(x, n)
    IN IF clamp(from) >= clamp(to) THEN <<>>
       ELSE SubSeq(bits, clamp(from) + 1, clamp(to))

(* The number written by up to 16 binary digits. *)
BitsValue(digits) ==
    LET v[k \in 0 .. Len(digits)] == IF k = 0 THEN 0 ELSE 2 * v[k - 1] + digits[k]
    IN v[Len(digits)]

(* A number returned by getBitWord: hi * 2^16 + lo, or NaN, or a number of
   more than 32 bits (large), or no number because the call raised. *)
BitWord(hi, lo) == [throws |-> FALSE, nan |-> FALSE, large |-> FALSE, hi |-> hi, lo |-> lo]

(* parseInt(digits, 2): NaN for the empty string. *)
ParseInt2(digits) ==
    LET zeros == IF \E k \in DOMAIN digits : digits[k] = 1
                 THEN (CHOOSE k \in DOMAIN digits :
                          digits[k] = 1 /\ \A j \in 1 .. k - 1 : digits[j] = 0) - 1
                 ELSE Len(digits)
        sig == SubSeq(digits, zeros + 1, Len(digits))
    IN IF digits = <<>> THEN [BitWord(0, 0) EXCEPT !.nan = TRUE]
       ELSE IF Len(sig) > 32 THEN [BitWord(0, 0) EXCEPT !.large = TRUE]
       ELSE IF Len(sig) > 16
       THEN BitWord(BitsValue(SubSeq(sig, 1, Len(sig) - 16)),
                    BitsValue(SubSeq(sig, Len(sig) - 15, Len(sig))))
       ELSE BitWord(0, BitsValue(sig))

(* buf[i] = parseInt(...): a Uint8Array element stores NaN as 0. *)
BufByte(bits, startBit, i) ==
    LET word == ParseInt2(Slice(bits, 8 * i + startBit, 8 * i + startBit + 8))
    IN IF word.nan THEN 0 ELSE word.lo

(* getBitWord reading a word of 16 or 32 bits with its bytes always in
   little-endian order. *)
getBitWordLittleEndian(bits, startBit, bitLength, littleEndian) ==
    IF bitLength <= 8 THEN ParseInt2(Slice(bits, startBit, startBit + bitLength))
    ELSE IF bitLength = 16
    THEN BitWord(0, BufByte(bits, startBit, 0) + 256 * BufByte(bits, startBit, 1))
    ELSE IF bitLength = 32
    THEN BitWord(BufByte(bits, startBit, 2) + 256 * BufByte(bits, startBit, 3),
                 BufByte(bits, startBit, 0) + 256 * BufByte(bits, startBit, 1))
    ELSE [BitWord(0, 0) EXCEPT !.throws = TRUE]

(* getBitWord(startBit, bitLength, littleEndian) on the digits of a message. *)
getBitWord(bits, startBit, bitLength, littleEndian) ==
    IF bitLength <= 8 THEN ParseInt2(Slice(bits, startBit, startBit + bitLength))
    ELSE IF bitLength = 16
    THEN IF littleEndian
         THEN BitWord(0, BufByte(bits, startBit, 0) + 256 * BufByte(bits, startBit, 1))
         ELSE BitWord(0, 256 * BufByte(bits, startBit, 0) + BufByte(bits, startBit, 1))
    ELSE IF bitLength = 32
    THEN IF littleEndian
         THEN BitWord(BufByte(bits, startBit, 2) + 256 * BufByte(bits, startBit, 3),
                      BufByte(bits, startBit, 0) + 256 * BufByte(bits, startBit, 1))
         ELSE BitWord(256 * BufByte(bits, startBit, 0) + BufByte(bits, startBit, 1),
                      256 * BufByte(bits, startBit, 2) + BufByte(bits, startBit, 3))
    ELSE [BitWord(0, 0) EXCEPT !.throws = TRUE]

(* The fields the Gen2 driver reads from a 20-byte MOVE message: the event
   type, the serial and, for sub-record i, the face, the direction and the
   elapsed time (getBitWord with littleEndian left at its default). *)
Gen2MessageView(message) ==
    LET bits == MessageBits(message)
    IN [Frame0 EXCEPT
           !.len = Len(message),
           !.type = getBitWord(bits, 0, 4, FALSE).lo,
           !.serial = getBitWord(bits, 4, 8, FALSE).lo,
           !.g2moves = [i \in 1 .. 7 |->
                           [face |-> getBitWord(bits, 12 + 5 * (i - 1), 4, FALSE).lo,
                            dir |-> getBitWord(bits, 16 + 5 * (i - 1), 1, FALSE).lo,
                            elapsed |-> getBitWord(bits, 47 + 16 * (i - 1), 16, FALSE).lo]]]

(* A Gen2 MOVE notification given as the bytes of the decrypted message. *)
NotifyMessage2(message) == NotifyMove2(Gen2MessageView(message))

(* getBitWord(arg.startBit, arg.bitLength, arg.littleEndian) called on its own
   on the view of arg.message. *)
CallGetBitWord ==
    /\ dev = "none"
    /\ result = Null
    /\ result' = Some(getBitWord(MessageBits(arg.message), arg.startBit, arg.bitLength,
                                 arg.littleEndian))
    /\ UNCHANGED <<arg, connectionVars>>

(* ------------------------------------------------------------------ *)
(* GanGen2CubeEncrypter                                                *)
(* ------------------------------------------------------------------ *)
(* AES-128 as aes-js computes it (FIPS-197).  A block is sixteen bytes, byte
   i (from 0) in row i % 4 and column i \div 4 of the state. *)
Bytes == Seq(0 .. 255)

(* The AES substitution box, indexed from 1. *)
SBox ==
  <<
     99, 124, 119, 123, 242, 107, 111, 197,  48,   1, 103,  43, 254, 215, 171, 118,
    202, 130, 201, 125, 250,  89,  71, 240, 173, 212, 162, 175, 156, 164, 114, 192,
    183, 253, 147,  38,  54,  63, 247, 204,  52, 165, 229, 241, 113, 216,  49,  21,
      4, 199,  35, 195,  24, 150,   5, 154,   7,  18, 128, 226, 235,  39, 178, 117,
      9, 131,  44,  26,  27, 110,  90, 160,  82,  59, 214, 179,  41, 227,  47, 132,
     83, 209,   0, 237,  32, 252, 177,  91, 106, 203, 190,  57,  74,  76,  88, 207,
    208, 239, 170, 251,  67,  77,  51, 133,  69, 249,   2, 127,  80,  60, 159, 168,
     81, 163,  64, 143, 146, 157,  56, 245, 188, 182, 218,  33,  16, 255, 243, 210,
    205,  12,  19, 236,  95, 151,  68,  23, 196, 167, 126,  61, 100,  93,  25, 115,
     96, 129,  79, 220,  34,  42, 144, 136,  70, 238, 184,  20, 222,  94,  11, 219,
    224,  50,  58,  10,  73,   6,  36,  92, 194, 211, 172,  98, 145, 149, 228, 121,
    231, 200,  55, 109, 141, 213,  78, 169, 108,  86, 244, 234, 101, 122, 174,   8,
    186, 120,  37,  46,  28, 166, 180, 198, 232, 221, 116,  31,  75, 189, 139, 138,
    112,  62, 181, 102,  72,   3, 246,  14,  97,  53,  87, 185, 134, 193,  29, 158,
    225, 248, 152,  17, 105, 217, 142, 148, 155,  30, 135, 233, 206,  85,  40, 223,
    140, 161, 137,  13, 191, 230,  66, 104,  65, 153,  45,  15, 176,  84, 187,  22
  >>

(* The inverse substitution box, indexed from 1. *)
InvSBox ==
  <<
     82,   9, 106, 213,  48,  54, 165,  56, 191,  64, 163, 158, 129, 243, 215, 251,
    124, 227,  57, 130, 155,  47, 255, 135,  52, 142,  67,  68, 196, 222, 233, 203,
     84, 123, 148,  50, 166, 194,  35,  61, 238,  76, 149,  11,  66, 250, 195,  78,
      8,  46, 161, 102,  40, 217,  36, 178, 118,  91, 162,  73, 109, 139, 209,  37,
    114, 248, 246, 100, 134, 104, 152,  22, 212, 164,  92, 204,  93, 101, 182, 146,
    108, 112,  72,  80, 253, 237, 185, 218,  94,  21,  70,  87, 167, 141, 157, 132,
    144, 216, 171,   0, 140, 188, 211,  10, 247, 228,  88,   5, 184, 179,  69,   6,
    208,  44,  30, 143, 202,  63,  15,   2, 193, 175, 189,   3,   1,  19, 138, 107,
     58, 145,  17,  65,  79, 103, 220, 234, 151, 242, 207, 206, 240, 180, 230, 115,
    150, 172, 116,  34, 231, 173,  53, 133, 226, 249,  55, 232,  28, 117, 223, 110,
     71, 241,  26, 113,  29,  41, 197, 137, 111, 183,  98,  14, 170,  24, 190,  27,
    252,  86,  62,  75, 198, 210, 121,  32, 154, 219, 192, 254, 120, 205,  90, 244,
     31, 221, 168,  51, 136,   7, 199,  49, 177,  18,  16,  89,  39, 128, 236,  95,
     96,  81, 127, 169,  25, 181,  74,  13,  45, 229, 122, 159, 147, 201, 156, 239,
    160, 224,  59,  77, 174,  42, 245, 176, 200, 235, 187,  60, 131,  83, 153,  97,
     23,  43,   4, 126, 186, 119, 214,  38, 225, 105,  20,  99,  85,  33,  12, 125
  >>

(* The round constants of the key schedule. *)
Rcon == <<1, 2, 4, 8, 16, 32, 64, 128, 27, 54>>

(* Sixteen bytes, the i-th being At(i). *)
Tuple16(At(_)) ==
    <<At(1), At(2), At(3), At(4), At(5), At(6), At(7), At(8), At(9), At(10), At(11), At(12), At(13), At(14), At(15), At(16)>>

(* b times x in GF(2^8) modulo x^8 + x^4 + x^3 + x + 1. *)
XTime(b) == IF b < 128 THEN 2 * b ELSE Xor((2 * b) % 256, 27)

(* a times b in GF(2^8). *)
RECURSIVE GMul(_, _)
GMul(a, b) ==
    IF a = 0 THEN 0
    ELSE Xor(IF a % 2 = 1 THEN b ELSE 0, GMul(a \div 2, XTime(b)))

SubBytes(state) ==
    LET sub[s \in Bytes] == Tuple16(LAMBDA i : SBox[s[i] + 1])
    IN sub[state]

InvSubBytes(state) ==
    LET sub[s \in Bytes] == Tuple16(LAMBDA i : InvSBox[s[i] + 1])
    IN sub[state]

(* Row r turns left by r columns (by 4 - r for the inverse, turn = 3). *)
ShiftRowsBy(turn, state) ==
    LET shift[s \in Bytes] ==
            Tuple16(LAMBDA i : s[((i - 1) % 4)
                                 + 4 * ((((i - 1) \div 4) + turn * ((i - 1) % 4)) % 4) + 1])
    IN shift[state]

ShiftRows(state) == ShiftRowsBy(1, state)

InvShiftRows(state) == ShiftRowsBy(3, state)

(* Every column multiplied by the circulant matrix of coef. *)
MixColumnsWith(coef, state) ==
    LET mix[s \in Bytes] ==
            Tuple16(LAMBDA i :
                LET r == (i - 1) % 4
                    c == (i - 1) \div 4
                    term(k) == GMul(coef[((k + 4 - r) % 4) + 1], s[k + 4 * c + 1])
                IN Xor(Xor(term(0), term(1)), Xor(term(2), term(3))))
    IN mix[state]

MixColumns(state) == MixColumnsWith(<<2, 3, 1, 1>>, state)

InvMixColumns(state) == MixColumnsWith(<<14, 11, 13, 9>>, state)

(* a ^ b byte by byte, on sixteen bytes. *)
XorBlock(a, b) ==
    LET xor[s \in Bytes, k \in Bytes] == Tuple16(LAMBDA i : Xor(s[i], k[i]))
    IN xor[a, b]

(* The 44 words of the AES-128 key schedule. *)
KeyExpansion(key) ==
    LET expand[w \in Seq(Bytes)] ==
            IF Len(w) = 44 THEN w
            ELSE LET i == Len(w)
                     prev == w[i]
                     temp == IF i % 4 = 0
                             THEN <<Xor(SBox[prev[2] + 1], Rcon[i \div 4]), SBox[prev[3] + 1],
                                    SBox[prev[4] + 1], SBox[prev[1] + 1]>>
                             ELSE prev
                     old == w[i - 3]
                 IN expand[Append(w, <<Xor(old[1], temp[1]), Xor(old[2], temp[2]),
                                       Xor(old[3], temp[3]), Xor(old[4], temp[4])>>)]
    IN expand[<<SubSeq(key, 1, 4), SubSeq(key, 5, 8), SubSeq(key, 9, 12), SubSeq(key, 13, 16)>>]

(* Round key r of the schedule w. *)
RoundKey(w, r) == w[4 * r + 1] \o w[4 * r + 2] \o w[4 * r + 3] \o w[4 * r + 4]

(* The AES-128 cipher on one block. *)
AesEncrypt(key, block) ==
    LET round[r \in 1 .. 10, s \in Bytes, w \in Seq(Bytes)] ==
            IF r = 10 THEN XorBlock(ShiftRows(SubBytes(s)), RoundKey(w, 10))
            ELSE round[r + 1, XorBlock(MixColumns(ShiftRows(SubBytes(s))), RoundKey(w, r)), w]
        start[s \in Bytes, w \in Seq(Bytes)] == round[1, XorBlock(s, RoundKey(w, 0)), w]
    IN start[block, KeyExpansion(key)]

(* The AES-128 inverse cipher on one block. *)
AesDecrypt(key, block) ==
    LET round[r \in 0 .. 9, s \in Bytes, w \in Seq(Bytes)] ==
            IF r = 0 THEN XorBlock(InvSubBytes(InvShiftRows(s)), RoundKey(w, 0))
            ELSE round[r - 1,
                       InvMixColumns(XorBlock(InvSubBytes(InvShiftRows(s)), RoundKey(w, r))), w]
        start[s \in Bytes, w \in Seq(Bytes)] == round[9, XorBlock(s, RoundKey(w, 10)), w]
    IN start[block, KeyExpansion(key)]

(* new ModeOfOperation.cbc(key, iv).encrypt(chunk) for one 16-byte chunk. *)
CbcEncrypt(enc, chunk) == AesEncrypt(enc.key, XorBlock(chunk, enc.iv))

(* new ModeOfOperation.cbc(key, iv).decrypt(chunk) for one 16-byte chunk. *)
CbcDecrypt(enc, chunk) == XorBlock(AesDecrypt(enc.key, chunk), enc.iv)

(* The constructor: the first six bytes of key and iv are salted, % 0xFF. *)
GanGen2CubeEncrypter(key, iv, salt) ==
    [key |-> [i \in 1 .. 16 |-> IF i <= 6 THEN (key[i] + salt[i]) % 255 ELSE key[i]],
     iv |-> [i \in 1 .. 16 |-> IF i <= 6 THEN (iv[i] + salt[i]) % 255 ELSE iv[i]]]

(* buffer.set(chunk, offset) *)
SetChunk(buffer, chunk, offset) ==
    SubSeq(buffer, 1, offset) \o chunk \o SubSeq(buffer, offset + 17, Len(buffer))

(* The buffers of a call: data, the caller's, and res, the one returned.
   encryptChunk(buffer, offset) rewrites sixteen bytes of the buffer named. *)
encryptChunk(enc, heap, buffer, offset) ==
    [heap EXCEPT ![buffer] =
        SetChunk(@, CbcEncrypt(enc, SubSeq(@, offset + 1, offset + 16)), offset)]

decryptChunk(enc, heap, buffer, offset) ==
    [heap EXCEPT ![buffer] =
        SetChunk(@, CbcDecrypt(enc, SubSeq(@, offset + 1, offset + 16)), offset)]

(* encrypt(data): res = new Uint8Array(data) copies the bytes; the chunk at
   the start, then, for more than 16 bytes, the chunk at the end. *)
encrypt(enc, data) ==
    IF Len(data) < 16 THEN [throws |-> TRUE, data |-> data, res |-> <<>>]
    ELSE LET tail[heap \in [throws : BOOLEAN, data : Bytes, res : Bytes]] ==
                 IF Len(heap.res) > 16
                 THEN encryptChunk(enc, heap, "res", Len(heap.res) - 16)
                 ELSE heap
         IN tail[encryptChunk(enc, [throws |-> FALSE, data |-> data, res |-> data], "res", 0)]

(* decrypt undoing the chunk at the start before the chunk at the end. *)
decryptHeadFirst(enc, data) ==
    IF Len(data) < 16 THEN [throws |-> TRUE, data |-> data, res |-> <<>>]
    ELSE LET tail[heap \in [throws : BOOLEAN, data : Bytes, res : Bytes]] ==
                 IF Len(heap.res) > 16
                 THEN decryptChunk(enc, heap, "res", Len(heap.res) - 16)
                 ELSE heap
         IN tail[decryptChunk(enc, [throws |-> FALSE, data |-> data, res |-> data], "res", 0)]

(* decrypt(data): on a copy, the chunk at the end first (for more than 16
   bytes), then the chunk at the start. *)
decrypt(enc, data) ==
    IF Len(data) < 16 THEN [throws |-> TRUE, data |-> data, res |-> <<>>]
    ELSE LET head[heap \in [throws : BOOLEAN, data : Bytes, res : Bytes]] ==
                 decryptChunk(enc, heap, "res", 0)
             copy == [throws |-> FALSE, data |-> data, res |-> data]
         IN head[IF Len(data) > 16 THEN decryptChunk(enc, copy, "res", Len(data) - 16)
                 ELSE copy]

(* encrypt(arg.msg) called on the encrypter arg.enc. *)
CallEncrypt ==
    /\ dev = "none"
    /\ result = Null
    /\ result' = Some([encrypted |-> encrypt(arg.enc, arg.msg), decrypted |-> Null])
    /\ UNCHANGED <<arg, connectionVars>>

(* decrypt called on what encrypt returned. *)
CallDecrypt ==
    /\ dev = "none"
    /\ result # Null
    /\ result[1].decrypted = Null
    /\ ~result[1].encrypted.throws
    /\ result' = Some([result[1] EXCEPT
                          !.decrypted = Some(decrypt(arg.enc, result[1].encrypted.res))])
    /\ UNCHANGED <<arg, connectionVars>>

(* ------------------------------------------------------------------ *)
(* cubeTimestampLinearFit                                              *)
(* ------------------------------------------------------------------ *)
(* A nullable number used in arithmetic: null counts as 0. *)
Num(v) == IF v = Null THEN 0 ELSE v[1]

(* Math.round(num / den) for den > 0: the nearest integer, halves upwards. *)
RoundDiv(num, den) == (2 * num + den) \div (2 * den)

(* linregress(X, Y) as the exact sums the line is built from; pairs with a
   null are skipped.  slope = covXY / varX (1 when varX = 0) and
   intercept = sumY / n - slope * sumX / n (0 when n = 0). *)
linregress(X, Y) ==
    LET used(i) == X[i] # Null /\ Y[i] # Null
        n == Cardinality({i \in DOMAIN X : used(i)})
        sumX == Sum([i \in DOMAIN X |-> IF used(i) THEN X[i][1] ELSE 0])
        sumY == Sum([i \in DOMAIN X |-> IF used(i) THEN Y[i][1] ELSE 0])
        sumXY == Sum([i \in DOMAIN X |-> IF used(i) THEN X[i][1] * Y[i][1] ELSE 0])
        sumXX == Sum([i \in DOMAIN X |-> IF used(i) THEN X[i][1] * X[i][1] ELSE 0])
    IN [n |-> n, sumX |-> sumX, sumY |-> sumY,
        varX |-> n * sumXX - sumX * sumX,
        covXY |-> n * sumXY - sumX * sumY]

(* Math.round(slope * x + intercept) for the line of linregress. *)
FitAt(line, x) ==
    IF line.n < 1 THEN x
    ELSE IF line.varX = 0 THEN RoundDiv(line.n * x + line.sumY - line.sumX, line.n)
    ELSE RoundDiv(line.n * line.covXY * x + line.sumY * line.varX - line.covXY * line.sumX,
                  line.n * line.varX)

(* The 1st pass filling only the nulls that stand directly before a
   cubeTimestamp known on entry, without carrying on through a run of nulls. *)
FitPass1Once(i, cubeMoves) ==
    [k \in DOMAIN cubeMoves |->
        IF /\ k < i
           /\ cubeMoves[k].cubeTimestamp = Null
           /\ cubeMoves[k + 1].cubeTimestamp # Null
        THEN [cubeMoves[k] EXCEPT !.cubeTimestamp = Some(cubeMoves[k + 1].cubeTimestamp[1] - 50)]
        ELSE cubeMoves[k]]

(* 1st pass of cubeTimestampLinearFit from index i (1-based) down: a null
   cubeTimestamp before a known one becomes that one minus 50, in place. *)
RECURSIVE FitPass1(_, _)
FitPass1(i, cubeMoves) ==
    IF i <= 1 THEN cubeMoves
    ELSE FitPass1(i - 1,
            IF cubeMoves[i].cubeTimestamp # Null /\ cubeMoves[i - 1].cubeTimestamp = Null
            THEN [cubeMoves EXCEPT ![i - 1].cubeTimestamp = Some(cubeMoves[i].cubeTimestamp[1] - 50)]
            ELSE cubeMoves)

(* 2nd pass from index i up: a null cubeTimestamp after a known one becomes
   that one plus 50, in place. *)
RECURSIVE FitPass2(_, _)
FitPass2(i, cubeMoves) ==
    IF i >= Len(cubeMoves) THEN cubeMoves
    ELSE FitPass2(i + 1,
            IF cubeMoves[i].cubeTimestamp # Null /\ cubeMoves[i + 1].cubeTimestamp = Null
            THEN [cubeMoves EXCEPT ![i + 1].cubeTimestamp = Some(cubeMoves[i].cubeTimestamp[1] + 50)]
            ELSE cubeMoves)

(* The caller's list after the two passes, which run for two moves or more. *)
FitPasses(cubeMoves) ==
    IF Len(cubeMoves) >= 2 THEN FitPass2(1, FitPass1(Len(cubeMoves), cubeMoves))
    ELSE cubeMoves

(* cubeTimestampLinearFit(cubeMoves): the list returned (res), built from the
   timestamps the passes have filled in, and the caller's list after the call. *)
cubeTimestampLinearFit(cubeMoves) ==
    LET fixed == FitPasses(cubeMoves)
        line == linregress([i \in DOMAIN fixed |-> fixed[i].cubeTimestamp],
                           [i \in DOMAIN fixed |-> fixed[i].localTimestamp])
        first == FitAt(line, Num(fixed[1].cubeTimestamp))
    IN [res |-> [i \in DOMAIN fixed |->
                    [face |-> fixed[i].face, direction |-> fixed[i].direction,
                     move |-> fixed[i].move, localTimestamp |-> fixed[i].localTimestamp,
                     cubeTimestamp |-> Some(FitAt(line, Num(fixed[i].cubeTimestamp)) - first)]],
        cubeMoves |-> fixed]

(* cubeTimestampLinearFit(arg) called on its own. *)
CallLinearFit ==
    /\ dev = "none"
    /\ result = Null
    /\ result' = Some(cubeTimestampLinearFit(arg))
    /\ UNCHANGED <<arg, connectionVars>>

(* injectMissedMoveToBuffer(arg.move) called on its own, on a driver whose
   moveBuffer, lastSerial and serial are arg.buf, arg.last and arg.cur: the
   moveBuffer after the call. *)
CallInject ==
    /\ dev = "none"
    /\ result = Null
    /\ result' = Some(injectMissedMoveToBuffer(arg.buf, arg.last, arg.cur, arg.move))
    /\ UNCHANGED <<arg, connectionVars>>

(* crc16ccit(arg) called on its own. *)
CallCrc16 ==
    /\ dev = "none"
    /\ result = Null
    /\ result' = Some(crc16ccit(arg))
    /\ UNCHANGED <<arg, connectionVars>>

(* One 'characteristicvaluechanged' notification of a cube. *)
Notify(f) ==
    \/ NotifyMove(f)
    \/ NotifyHistory(f)
    \/ NotifyFacelets(f)
    \/ NotifyMove2(f)
    \/ NotifyFacelets2(f)
    \/ NotifyHardware(f)
    \/ NotifyBattery(f)
    \/ NotifyGyro(f)
    \/ NotifyDisconnect(f)
    \/ NotifyIgnored(f)

(* The events at the sink, by type. *)
IsMove(e) == e.type = "MOVE"
IsFacelets(e) == e.type = "FACELETS"
IsDisconnectEvent(e) == e.type = "DISCONNECT"
DeliveredMoves == SelectSeq(events, IsMove)
DeliveredFacelets == SelectSeq(events, IsFacelets)

(* ------------------------------------------------------------------ *)
(* SpecRecon: a Gen3 / Gen4 cube sending facelets, moves around the     *)
(* serial wrap 255 -> 0, and move-history responses.                    *)
(* ------------------------------------------------------------------ *)
ReconSerials == {255, 0, 1, 2}
ReconMoves == {MkMove(s, 2) : s \in ReconSerials} \cup {MkMove(0, 3)}
ReconHistories == {MkHistory(1, <<GoodNibble, GoodNibble>>),
                   MkHistory(1, <<GoodNibble, BadNibble>>),
                   MkHistory(1, <<GoodNibble, GoodNibble, GoodNibble, GoodNibble>>),
                   MkHistory(255, <<GoodNibble, GoodNibble>>)}
ReconFacelets == {MkFacelets(s) : s \in {254, 1}}

InitRecon == InitWith({"gen3", "gen4"})

NextRecon ==
    \/ \E f \in ReconMoves : nframes < MaxFrames /\ NotifyMove(f)
    \/ \E f \in ReconHistories : nframes < MaxFrames /\ NotifyHistory(f)
    \/ \E f \in ReconFacelets : nframes < MaxFrames /\ NotifyFacelets(f)
    \/ \E i \in 1 .. MaxInflight : WriteDone(i)
    \/ Tick

SpecRecon == InitRecon /\ [][NextRecon]_vars


(* ------------------------------------------------------------------ *)
(* SpecPerm: after the first facelets snapshot (serial s-1) the real-   *)
(* time moves s .. s+MaxPermK arrive in any order, each at most once.   *)
(* ------------------------------------------------------------------ *)
PermFacelets == {MkFacelets(s) : s \in {4, 253}}
PermBase == DeliveredFacelets[1].serial
PermSerial(k) == And8(PermBase + k)
BufferedSerials == {moveBuffer[i].serial : i \in DOMAIN moveBuffer}
ArrivedSerials == BufferedSerials \cup {DeliveredMoves[i].serial : i \in DOMAIN DeliveredMoves}

NextPerm ==
    \/ \E f \in PermFacelets : lastSerial = NoSerial /\ NotifyFacelets(f)
    \/ \E k \in 1 .. MaxPermK + 1 :
          /\ lastSerial # NoSerial
          /\ PermSerial(k) \notin ArrivedSerials
          /\ NotifyMove(MkMove(PermSerial(k), 2))
    \/ \E i \in 1 .. MaxInflight : WriteDone(i)

SpecPerm == InitRecon /\ [][NextPerm]_vars

(* ------------------------------------------------------------------ *)
(* SpecDesync: moves pile up behind a gap that the history responses    *)
(* close only in part.                                                  *)
(* ------------------------------------------------------------------ *)
DesyncFacelets == {MkFacelets(0)}
DesyncMoves == {MkMove(5, 2)}
DesyncHistories == {MkHistory(4, <<GoodNibble, GoodNibble>>),
                    MkHistory(2, <<GoodNibble, GoodNibble>>)}

NextDesync ==
    \/ \E f \in DesyncFacelets : lastSerial = NoSerial /\ NotifyFacelets(f)
    \/ \E f \in DesyncMoves : nframes < MaxDesyncFrames /\ NotifyMove(f)
    \/ \E f \in DesyncHistories : nframes < MaxDesyncFrames /\ NotifyHistory(f)
    \/ \E i \in 1 .. MaxInflight : WriteDone(i)
    \/ DisconnectDone

SpecDesync == InitRecon /\ [][NextDesync]_vars

(* ------------------------------------------------------------------ *)
(* SpecSession: a cube or timer session with notifications, the         *)
(* application's disconnect() calls and a drop of the link, in any      *)
(* interleaving.                                                        *)
(* ------------------------------------------------------------------ *)
SessionFacelets == {MkFacelets(s) : s \in {1, 3}}
SessionMoves == {MkMove(2, 2)}
SessionMoves2 == {MkMove2(2, 0, 10)}
SessionOthers == {MkOther("battery"), MkOther("disconnect")}

TimerRunning == MkTimerFrame(<<3, 0, 0, 0, 0>>)
TimerStoppedFrame == MkTimerFrame(<<TimerStopped, 0, 12, 100, 0>>)
TimerBadMagic == [TimerRunning EXCEPT ![1] = Gen3Magic]
TimerBadCrc == [TimerRunning EXCEPT ![Len(TimerRunning)] = (@ + 1) % 256]
SessionTimerFrames == {TimerRunning, TimerStoppedFrame, TimerBadMagic, TimerBadCrc, <<>>}

InitSession == InitWith({"gen2", "gen3", "gen4", "timer"})

NextSession ==
    \/ \E f \in SessionFacelets : nframes < MaxFrames /\ NotifyFacelets(f)
    \/ \E f \in SessionFacelets : nframes < MaxFrames /\ NotifyFacelets2(f)
    \/ \E f \in SessionMoves : nframes < MaxFrames /\ NotifyMove(f)
    \/ \E f \in SessionMoves2 : nframes < MaxFrames /\ NotifyMove2(f)
    \/ \E f \in SessionOthers : nframes < MaxFrames /\ NotifyBattery(f)
    \/ \E f \in SessionOthers : nframes < MaxFrames /\ NotifyDisconnect(f)
    \/ \E i \in 1 .. MaxInflight : WriteDone(i)
    \/ UserDisconnect
    \/ DisconnectDone
    \/ TransportDrop
    \/ \E d \in SessionTimerFrames : nframes < MaxFrames /\ TimerNotify(d)
    \/ TimerDisconnect
    \/ TimerDisconnectDone
    \/ TimerTransportDrop
    \/ Tick

SpecSession == InitSession /\ [][NextSession]_vars

(* ------------------------------------------------------------------ *)
(* SpecFrames: every kind of frame of every cube generation, among them *)
(* frames the drivers are to reject.                                    *)
(* ------------------------------------------------------------------ *)
(* Event type 11 (0x0B) has no branch in any driver; type 251 (0xFB) lies in
   Gen4's hardware range 0xFA..0xFE and has no case in its switch. *)
FrameAlphabet ==
    {MkFacelets(1), MkOther("battery"), MkOther("disconnect"),
     [MkFacelets(9) EXCEPT !.len = MinFrameLen - 1],
     [MkFacelets(9) EXCEPT !.type = 11]}
    \cup (IF dev = "gen2"
          THEN {MkMove2(2, 0, 10), MkOther("gyro"), MkOther("hardware")}
          ELSE {MkMove(2, 2), MkMove(4, 2), MkHistory(3, <<GoodNibble, GoodNibble>>)})
    \cup (IF dev = "gen3"
          THEN {[MkFacelets(9) EXCEPT !.magic = 0], [MkFacelets(9) EXCEPT !.dataLength = 0],
                MkOther("hardware")}
          ELSE {})
    \cup (IF dev = "gen4"
          THEN {MkHwInfo(t) : t \in HwTags \cup {251}} \cup {MkOther("gyro")}
          ELSE {})

InitFrames == InitWith({"gen2", "gen3", "gen4"})

NextFrames ==
    \/ \E f \in FrameAlphabet : nframes < MaxRejectFrames /\ Notify(f)
    \/ \E i \in 1 .. MaxInflight : WriteDone(i)
    \/ DisconnectDone

SpecFrames == InitFrames /\ [][NextFrames]_vars

(* ------------------------------------------------------------------ *)
(* SpecTimer: a timer session receiving state frames of every shape:    *)
(* each state value, recorded times, damaged and truncated frames.      *)
(* ------------------------------------------------------------------ *)
(* A well-formed frame announcing state s; 8 is not a GanTimerState. *)
TimerStateFrame(s) == MkTimerFrame(<<s, 0, 0, 0, 0>>)
TimerStoppedLong == MkTimerFrame(<<TimerStopped, 1, 2, 3, 1>>)
(* STOPPED without the recorded time. *)
TimerStoppedShort == MkTimerFrame(<<TimerStopped>>)
(* The CRC word stored high byte first. *)
TimerSwappedCrc ==
    LET n == Len(TimerStoppedLong)
    IN [TimerStoppedLong EXCEPT ![n - 1] = TimerStoppedLong[n], ![n] = TimerStoppedLong[n - 1]]
(* The CRC taken over the whole frame, the two prefix bytes included. *)
TimerWholeCrc ==
    LET head == <<TimerMagic, 10, 1, 3, 0, 0, 0, 0>>
        crc == crc16ccit(head)
    IN head \o <<crc % 256, crc \div 256>>
(* Three bytes: the CRC word 0xFFFF of an empty range, and no state byte. *)
TimerNoState == <<TimerMagic, 255, 255>>

TimerAlphabet ==
    {TimerStateFrame(s) : s \in {0, 1, 3, 5, 7, 8}}
    \cup {TimerStoppedFrame, TimerStoppedLong, TimerStoppedShort, TimerSwappedCrc,
          TimerWholeCrc, TimerNoState, TimerBadMagic, TimerBadCrc,
          <<>>, <<TimerMagic>>, <<TimerMagic, 0>>}

InitTimer == InitWith({"timer"})

NextTimer ==
    \/ \E d \in TimerAlphabet : nframes < MaxTimerFrames /\ TimerNotify(d)
    \/ TimerDisconnect
    \/ TimerDisconnectDone
    \/ TimerTransportDrop

SpecTimer == InitTimer /\ [][NextTimer]_vars

(* ------------------------------------------------------------------ *)
(* SpecStart: the first frames of a cube session of each generation,    *)
(* moves and history responses arriving before or after the first       *)
(* facelets snapshot.                                                   *)
(* ------------------------------------------------------------------ *)
StartFacelets == {MkFacelets(254)}
StartMoves == {MkMove(255, 2), MkMove(0, 2)}
StartMoves2 == {MkMove2(255, 0, 10), MkMove2(3, 0, 10)}
StartHistories == {MkHistory(255, <<GoodNibble, GoodNibble>>),
                   MkHistory(1, <<GoodNibble, GoodNibble>>)}

NextStart ==
    \/ \E f \in StartFacelets : nframes < MaxStartFrames /\ NotifyFacelets(f)
    \/ \E f \in StartFacelets : nframes < MaxStartFrames /\ NotifyFacelets2(f)
    \/ \E f \in StartMoves : nframes < MaxStartFrames /\ NotifyMove(f)
    \/ \E f \in StartMoves2 : nframes < MaxStartFrames /\ NotifyMove2(f)
    \/ \E f \in StartHistories : nframes < MaxStartFrames /\ NotifyHistory(f)
    \/ \E i \in 1 .. MaxInflight : WriteDone(i)
    \/ Tick

SpecStart == InitFrames /\ [][NextStart]_vars

(* ------------------------------------------------------------------ *)
(* SpecGen2: a Gen2 cube sending its first facelets snapshot and move   *)
(* frames whose serials run 1, 2, 3, 5 or more than 7 ahead of the last *)
(* one, across the wrap 255 -> 0, or fall behind it.                    *)
(* ------------------------------------------------------------------ *)
Gen2Facelets == {MkFacelets(250)}
Gen2MoveFrames == {MkMove2(s, 0, 10) : s \in {251, 253, 2, 12}} \cup {MkMove2(254, 1, 0)}

InitGen2 == InitWith({"gen2"})

NextGen2 ==
    \/ \E f \in Gen2Facelets : nframes < MaxGen2Frames /\ NotifyFacelets2(f)
    \/ \E f \in Gen2MoveFrames : nframes < MaxGen2Frames /\ NotifyMove2(f)
    \/ Tick

SpecGen2 == InitGen2 /\ [][NextGen2]_vars

(* ------------------------------------------------------------------ *)
(* SpecHw: a Gen4 cube answering hardware requests: the four sub-frames *)
(* in any order and with repeats, two different names, the tag 0xFB the *)
(* switch has no case for, battery frames in between, and the           *)
(* application asking for the hardware information again.               *)
(* ------------------------------------------------------------------ *)
HwFrames ==
    {MkHwInfo(t) : t \in HwTags \cup {251}}
        \cup {[MkHwInfo(HwName) EXCEPT !.hw = "GANi4"]}

InitHw == InitWith({"gen4"})

NextHw ==
    \/ \E f \in HwFrames : nframes < MaxHwFrames /\ NotifyHardware(f)
    \/ nframes < MaxHwFrames /\ NotifyBattery(MkOther("battery"))
    \/ RequestHardware

SpecHw == InitHw /\ [][NextHw]_vars

(* ------------------------------------------------------------------ *)
(* SpecRequest: a Gen3 / Gen4 cube whose MOVE and FACELETS frames carry *)
(* any value in their 16-bit serial field, with gaps at the buffer head *)
(* and late facelets snapshots, so that history requests are written.   *)
(* ------------------------------------------------------------------ *)
RequestMoves == {MkMove(s, 2) : s \in {252, 255, 0, 2, 257}}
RequestFacelets == {MkFacelets(s) : s \in {250, 255, 3}}

NextRequest ==
    \/ \E f \in RequestMoves : nframes < MaxRequestFrames /\ NotifyMove(f)
    \/ \E f \in RequestFacelets : nframes < MaxRequestFrames /\ NotifyFacelets(f)
    \/ \E i \in 1 .. MaxInflight : WriteDone(i)
    \/ Tick

SpecRequest == InitRecon /\ [][NextRequest]_vars

(* ------------------------------------------------------------------ *)
(* SpecWrite: a Gen3 / Gen4 cube with gaps at the buffer head and late  *)
(* facelets snapshots, on a transport that may reject the write of a    *)
(* history request.                                                     *)
(* ------------------------------------------------------------------ *)
WriteMoves == {MkMove(s, 2) : s \in {2, 3, 4}} \cup {MkMove(5, 3)}
WriteFacelets == {MkFacelets(s) : s \in {1, 4}}
WriteHistories == {MkHistory(3, <<GoodNibble, GoodNibble>>)}

NextWrite ==
    \/ \E f \in WriteMoves : nframes < MaxWriteFrames /\ NotifyMove(f)
    \/ \E f \in WriteFacelets : nframes < MaxWriteFrames /\ NotifyFacelets(f)
    \/ \E f \in WriteHistories : nframes < MaxWriteFrames /\ NotifyHistory(f)
    \/ \E i \in 1 .. MaxInflight : WriteDone(i)
    \/ \E i \in 1 .. MaxInflight : WriteFailed(i)
    \/ Tick

SpecWrite == InitRecon /\ [][NextWrite]_vars

(* ------------------------------------------------------------------ *)
(* SpecSnapshot: a Gen3 / Gen4 cube whose facelets snapshots arrive     *)
(* early and late after a move, ahead of lastSerial or not, with serial *)
(* 0 and with a serial of more than 8 bits, the buffer empty or not.    *)
(* ------------------------------------------------------------------ *)
SnapshotMoves == {MkMove(s, 2) : s \in {4, 6, 255}}
SnapshotFacelets == {MkFacelets(s) : s \in {3, 5, 0, 256}}

NextSnapshot ==
    \/ \E f \in SnapshotMoves : nframes < MaxFrames /\ NotifyMove(f)
    \/ \E f \in SnapshotFacelets : nframes < MaxFrames /\ NotifyFacelets(f)
    \/ \E i \in 1 .. MaxInflight : WriteDone(i)
    \/ Tick

SpecSnapshot == InitRecon /\ [][NextSnapshot]_vars

(* ------------------------------------------------------------------ *)
(* SpecCommand: the application sending commands of the four known      *)
(* types and of others to a cube of each generation, between frames     *)
(* that give the driver some state.                                     *)
(* ------------------------------------------------------------------ *)
KnownCommands == {"REQUEST_FACELETS", "REQUEST_HARDWARE", "REQUEST_BATTERY", "REQUEST_RESET"}
CommandTypes == KnownCommands \cup {"REQUEST_MOVE_HISTORY", "request_facelets", ""}
CommandFrames == {MkHwInfo(HwName), MkHwInfo(HwDate)}

NextCommand ==
    \/ \E type \in CommandTypes : SendCubeCommand(type)
    \/ \E f \in CommandFrames : nframes < MaxCommandFrames /\ dev = "gen4" /\ NotifyHardware(f)
    \/ \E s \in {7} : nframes < MaxCommandFrames /\ NotifyFacelets(MkFacelets(s))
    \/ \E s \in {7} : nframes < MaxCommandFrames /\ NotifyFacelets2(MkFacelets(s))

SpecCommand == InitFrames /\ [][NextCommand]_vars

(* ------------------------------------------------------------------ *)
(* SpecFields: move frames whose bit fields take values over their      *)
(* whole width: the 16-bit serial and 2-bit direction of a Gen3 / Gen4  *)
(* MOVE frame, the 4-bit face of a Gen2 move slot.                      *)
(* ------------------------------------------------------------------ *)
FieldMoves == {[MkMove(s, 2) EXCEPT !.dir = d] : s \in {1, 2, 257}, d \in {0, 1, 3}}
FieldMoves2 == {MkMove2(s, face, 10) : s \in {1, 2}, face \in {0, 5, 9}}

NextFields ==
    \/ \E f \in FieldMoves : nframes < MaxFieldFrames /\ NotifyMove(f)
    \/ \E f \in FieldMoves2 : nframes < MaxFieldFrames /\ NotifyMove2(f)
    \/ \E s \in {0} : nframes < MaxFieldFrames /\ NotifyFacelets(MkFacelets(s))
    \/ \E s \in {0} : nframes < MaxFieldFrames /\ NotifyFacelets2(MkFacelets(s))
    \/ \E i \in 1 .. MaxInflight : WriteDone(i)

SpecFields == InitFrames /\ [][NextFields]_vars

(* ------------------------------------------------------------------ *)
(* SpecFacelets: facelets frames of the three generations with solved,  *)
(* scrambled, duplicated and out-of-table corner and edge fields (3-bit *)
(* corners, 2-bit twists, 4-bit edges, 1-bit flips), also behind a      *)
(* pending history request.                                             *)
(* ------------------------------------------------------------------ *)
MkFaceletsOf(s, cp, co, ep, eo) ==
    [MkFacelets(s) EXCEPT !.cp = cp, !.co = co, !.ep = ep, !.eo = eo]

FaceletFrames ==
    LET cp0 == Frame0.cp
        co0 == Frame0.co
        ep0 == Frame0.ep
        eo0 == Frame0.eo
    IN { MkFaceletsOf(0, cp0, co0, ep0, eo0),                         \* solved
         MkFaceletsOf(5, cp0, co0, ep0, eo0),
         MkFaceletsOf(5, <<0, 5, 2, 1, 7, 4, 6>>, <<1, 2, 0, 2, 1, 1, 0>>,
                         <<1, 9, 2, 3, 11, 8, 6, 7, 4, 5, 10>>,
                         <<1, 1, 0, 0, 0, 1, 0, 0, 0, 1, 0>>),         \* after F R
         MkFaceletsOf(0, <<0, 0, 0, 0, 0, 0, 0>>, co0, ep0, eo0),     \* CP[7] = 28
         MkFaceletsOf(5, <<7, 7, 7, 7, 7, 7, 7>>, co0, ep0, eo0),     \* CP[7] = -21
         MkFaceletsOf(5, <<0, 1, 2, 3, 4, 6, 6>>, co0, ep0, eo0),     \* CP[7] = 6, twice
         MkFaceletsOf(5, cp0, <<3, 3, 0, 0, 0, 0, 1>>, ep0, eo0),     \* twist 3
         MkFaceletsOf(5, cp0, co0, <<12, 1, 2, 3, 4, 5, 6, 7, 8, 9, 10>>, eo0),
         MkFaceletsOf(5, cp0, co0, <<0, 0, 0, 0, 0, 0, 0, 0, 0, 0, 0>>, eo0),
         MkFaceletsOf(5, cp0, co0, <<0, 1, 2, 3, 4, 5, 6, 7, 8, 10, 10>>,
                         <<1, 0, 0, 0, 0, 0, 0, 0, 0, 0, 0>>) }        \* EP[11] = 10, twice

NextFacelets ==
    \/ \E f \in FaceletFrames : nframes < MaxFaceletFrames /\ NotifyFacelets(f)
    \/ \E f \in FaceletFrames : nframes < MaxFaceletFrames /\ NotifyFacelets2(f)
    \/ \E s \in {6} : nframes < MaxFaceletFrames /\ NotifyMove(MkMove(s, 2))
    \/ \E i \in 1 .. MaxInflight : WriteDone(i)
    \/ Tick

SpecFacelets == InitFrames /\ [][NextFacelets]_vars

(* ------------------------------------------------------------------ *)
(* SpecCrc: crc16ccit called on every string of up to MaxCrcLen bytes   *)
(* over a few byte values, and on the ASCII digits "123456789".         *)
(* ------------------------------------------------------------------ *)
CrcBytes == {0, 1, 49, 128, 255}
CrcInputs ==
    UNION {[1 .. n -> CrcBytes] : n \in 0 .. MaxCrcLen}
        \cup {<<49, 50, 51, 52, 53, 54, 55, 56, 57>>}

InitCrc == InitApply(CrcInputs)

SpecCrc == InitCrc /\ [][CallCrc16]_vars

(* ------------------------------------------------------------------ *)
(* SpecKociemba: toKociembaFacelets called on legal cube states: the    *)
(* first MaxVaried corners (or edges) are any distinct cubies with any  *)
(* orientation, the others follow in ascending order, unturned, and the *)
(* last orientation closes the sum; also the state after F R.           *)
(* ------------------------------------------------------------------ *)
RECURSIVE Ascending(_)
Ascending(S) ==
    IF S = {} THEN <<>>
    ELSE LET least == CHOOSE x \in S : \A y \in S : x <= y
         IN <<least>> \o Ascending(S \ {least})

(* The permutations of 0 .. n-1 whose elements after the first MaxVaried ascend. *)
LeadingPerms(n) ==
    {h \o Ascending((0 .. n - 1) \ {h[i] : i \in DOMAIN h}) :
        h \in {g \in [1 .. MaxVaried -> 0 .. n - 1] :
                  \A i, j \in DOMAIN g : i # j => g[i] # g[j]}}

(* The orientations of n cubies mod m: free on the first MaxVaried, then 0,
   the last one making the sum a multiple of m. *)
LeadingTwists(n, m) ==
    {h \o [i \in 1 .. n - MaxVaried - 1 |-> 0] \o <<(m - (Sum(h) % m)) % m>> :
        h \in [1 .. MaxVaried -> 0 .. m - 1]}

KociembaInputs ==
    {[cp |-> c, co |-> o, ep |-> Ascending(0 .. 11), eo |-> [i \in 1 .. 12 |-> 0]] :
        c \in LeadingPerms(8), o \in LeadingTwists(8, 3)}
    \cup
    {[cp |-> Ascending(0 .. 7), co |-> [i \in 1 .. 8 |-> 0], ep |-> e, eo |-> o] :
        e \in LeadingPerms(12), o \in LeadingTwists(12, 2)}
    \cup
    {[cp |-> <<0, 5, 2, 1, 7, 4, 6, 3>>, co |-> <<1, 2, 0, 2, 1, 1, 0, 2>>,
      ep |-> <<1, 9, 2, 3, 11, 8, 6, 7, 4, 5, 10, 0>>,
      eo |-> <<1, 1, 0, 0, 0, 1, 0, 0, 0, 1, 0, 0>>]}

InitKociemba == InitApply(KociembaInputs)

SpecKociemba == InitKociemba /\ [][CallKociemba]_vars

(* ------------------------------------------------------------------ *)
(* SpecFit: cubeTimestampLinearFit called on lists of up to MaxFitMoves *)
(* moves, live ones and recovered ones (null timestamps) in any mix.    *)
(* ------------------------------------------------------------------ *)
FitMove(i, lts, cts) ==
    [face |-> i % 6, direction |-> i % 2, move |-> <<i % 6, i % 2>>,
     localTimestamp |-> lts, cubeTimestamp |-> cts]

FitInputs ==
    UNION {{[i \in 1 .. n |-> FitMove(i, l[i], c[i])] :
               l \in [1 .. n -> {Null, Some(1000), Some(1130)}],
               c \in [1 .. n -> {Null, Some(100), Some(220)}]} : n \in 0 .. MaxFitMoves}

InitFit == InitApply(FitInputs)

SpecFit == InitFit /\ [][CallLinearFit]_vars

(* ------------------------------------------------------------------ *)
(* SpecInject: injectMissedMoveToBuffer offered one history move, the   *)
(* buffer holding up to MaxInjectBuffer moves in steps of one or two    *)
(* serials, with serials on both sides of the wrap at 256.              *)
(* ------------------------------------------------------------------ *)
InjectSerials == {0, 1, 2, 3, 254, 255}

InjectMove(s, recovered) ==
    [type |-> "MOVE", serial |-> s, recovered |-> recovered]

(* Buffered live moves carry the serial as read from 16 bits: high byte hi. *)
InjectInputs ==
    {[buf |-> [i \in 1 .. n |-> InjectMove(hi * 256 + And8(h + (i - 1) * step), FALSE)],
      last |-> l, cur |-> hi * 256 + And8(h + (n - 1) * step), move |-> InjectMove(s, TRUE)] :
        n \in 0 .. MaxInjectBuffer, step \in {1, 2}, hi \in {0, 1},
        h \in InjectSerials, l \in InjectSerials, s \in InjectSerials}
    \cup
    {[buf |-> <<>>, last |-> -1, cur |-> -1, move |-> InjectMove(s, TRUE)] :
        s \in InjectSerials}

InitInject == InitApply(InjectInputs)

SpecInject == InitInject /\ [][CallInject]_vars

(* ------------------------------------------------------------------ *)
(* SpecEncrypter: a message of 16 .. MaxMessageLen bytes, or one byte   *)
(* too short, encrypted and then decrypted by the encrypter of the GAN  *)
(* key salted with a device address (GAN_ENCRYPTION_KEYS[0]).           *)
(* ------------------------------------------------------------------ *)
GanEncrypter ==
    GanGen2CubeEncrypter(
        <<1, 2, 66, 40, 49, 145, 22, 7, 32, 5, 24, 84, 66, 17, 18, 83>>,
        <<17, 3, 50, 40, 33, 1, 118, 39, 32, 149, 120, 20, 50, 18, 2, 67>>,
        <<171, 18, 52, 96, 159, 239>>)

(* Byte i of the message is p * i + 3 * p: all zero, rising or falling. *)
EncrypterInputs ==
    {[enc |-> GanEncrypter, msg |-> [i \in 1 .. n |-> (p * i + 3 * p) % 256]] :
        n \in 15 .. MaxMessageLen, p \in {0, 7, 255}}

InitEncrypter == InitApply(EncrypterInputs)

NextEncrypter == CallEncrypt \/ CallDecrypt

SpecEncrypter == InitEncrypter /\ [][NextEncrypter]_vars

(* ------------------------------------------------------------------ *)
(* SpecBitView: getBitWord called on a 5-byte message with a bit length *)
(* from -2 to MaxBitLength, at offsets inside, across and at the end of *)
(* the message, in both byte orders.                                    *)
(* ------------------------------------------------------------------ *)
BitViewInputs ==
    {[message |-> <<165, 90, 1, 128, 255>>, startBit |-> st, bitLength |-> n,
      littleEndian |-> le] :
        st \in {0, 3, 8, 36, 40}, n \in -2 .. MaxBitLength, le \in BOOLEAN}

InitBitView == InitApply(BitViewInputs)

SpecBitView == InitBitView /\ [][CallGetBitWord]_vars

(* ------------------------------------------------------------------ *)
(* SpecElapsed: a Gen2 cube whose MOVE notifications are given as the   *)
(* 20 bytes of the message: after the snapshot with serial 250, moves   *)
(* with serials 251 .. 253 whose elapsed words have two different       *)
(* bytes, are zero, or differ from one sub-record to the next.          *)
(* ------------------------------------------------------------------ *)
(* The n binary digits of v, most significant first. *)
Digits(v, n) == [k \in 1 .. n |-> (v \div (2 ^ (n - k))) % 2]

RECURSIVE Flatten(_)
Flatten(seqs) == IF seqs = <<>> THEN <<>> ELSE Head(seqs) \o Flatten(Tail(seqs))

(* The message of event type 2 with the serial given, seven sub-records with
   face i % 6 and direction 0, and the two bytes pairs[i] as the elapsed word
   of sub-record i - 1. *)
MoveMessage(s, pairs) ==
    LET bits == Digits(2, 4) \o Digits(s, 8)
                    \o Flatten([i \in 1 .. 7 |-> Digits(i % 6, 4) \o <<0>>])
                    \o Flatten([i \in 1 .. 7 |-> Digits(pairs[i][1], 8) \o Digits(pairs[i][2], 8)])
                    \o <<0>>
    IN [b \in 1 .. 20 |-> BitsValue(SubSeq(bits, 8 * b - 7, 8 * b))]

ElapsedPairs ==
    {[i \in 1 .. 7 |-> <<1, 2>>],
     [i \in 1 .. 7 |-> <<0, 0>>],
     [i \in 1 .. 7 |-> <<0, 10 * i>>],
     [i \in 1 .. 7 |-> IF i = 2 THEN <<0, 0>> ELSE <<2, i>>]}

ElapsedMessages == {MoveMessage(s, pairs) : s \in {251, 252, 253}, pairs \in ElapsedPairs}

NextElapsed ==
    \/ nframes < MaxElapsedFrames /\ NotifyFacelets2(MkFacelets(250))
    \/ \E message \in ElapsedMessages : nframes < MaxElapsedFrames /\ NotifyMessage2(message)
    \/ Tick

SpecElapsed == InitGen2 /\ [][NextElapsed]_vars

(* ------------------------------------------------------------------ *)
(* SpecOrder: a Gen3 / Gen4 cube whose frames arrive while the handlers *)
(* of earlier frames wait for their history-request write: snapshots 3  *)
(* and 5, moves 4 and 6, and the history frame with the moves 5, 4.     *)
(* ------------------------------------------------------------------ *)
OrderMoves == {MkMove(s, 2) : s \in {4, 6}}
OrderFacelets == {MkFacelets(s) : s \in {3, 5}}
OrderHistories == {MkHistory(5, <<GoodNibble, GoodNibble>>)}

NextOrder ==
    \/ \E f \in OrderMoves : nframes < MaxFrames /\ NotifyMove(f)
    \/ \E f \in OrderHistories : nframes < MaxFrames /\ NotifyHistory(f)
    \/ \E f \in OrderFacelets : nframes < MaxFrames /\ NotifyFacelets(f)
    \/ \E i \in 1 .. MaxInflight : WriteDone(i)
    \/ Tick

SpecOrder == InitRecon /\ [][NextOrder]_vars

(* ------------------------------------------------------------------ *)
(* Claims                                                              *)
(* ------------------------------------------------------------------ *)

(* C1: the MOVE events at the sink are in ascending contiguous serial order
   modulo 256: each one's serial is one more than the serial of the MOVE
   delivered just before it, the first one's one more than the serial of the
   first facelets snapshot. *)
C1_MovesAscendingContiguous ==
    \A i \in DOMAIN DeliveredMoves :
        And8(DeliveredMoves[i].serial
             - (IF i = 1 THEN DeliveredFacelets[1].serial
                ELSE DeliveredMoves[i - 1].serial)) = 1

(* A real-time move waits at the head of the move buffer, the serials between
   lastSerial and its serial are missing (no buffered move has one of them),
   and the history frame f carries every one of them, newest first and each
   with a valid face. *)
CoversGap(f) ==
    /\ moveBuffer # <<>>
    /\ ~Head(moveBuffer).recovered
    /\ LET missing == And8(Head(moveBuffer).serial - lastSerial) - 1
           first == And8(f.start - (Head(moveBuffer).serial - 1))
       IN /\ \A k \in 1 .. missing, i \in DOMAIN moveBuffer :
                moveBuffer[i].serial # And8(lastSerial + k)
          /\ first + missing <= (f.dataLength - 1) * 2
          /\ \A k \in first .. first + missing - 1 :
                IndexOf(HistoryFaceTable, NibbleAt(f, k).face) >= 0

(* What the sink received in this step. *)
NewEvents == SubSeq(events', Len(events) + 1, Len(events'))

(* C3: when a real-time move waits behind a gap and a history frame delivers
   the missing serials newest-first, the sink receives the recovered moves in
   ascending serial order and then the buffered real-time move; and a delivered
   MOVE has null localTimestamp and null cubeTimestamp exactly when it was
   recovered from a history frame. *)
C3_LostMoveRecovery ==
    /\ [][\A f \in ReconHistories :
            (NotifyHistory(f) /\ CoversGap(f)) =>
                LET missing == And8(Head(moveBuffer).serial - lastSerial) - 1
                IN /\ Len(NewEvents) >= missing + 1
                   /\ \A k \in 1 .. missing :
                        /\ IsMove(NewEvents[k])
                        /\ NewEvents[k].recovered
                        /\ NewEvents[k].serial = And8(lastSerial + k)
                   /\ NewEvents[missing + 1] = Head(moveBuffer)]_vars
    /\ [](\A i \in DOMAIN events :
            IsMove(events[i]) =>
                /\ events[i].recovered <=> events[i].localTimestamp = Null
                /\ events[i].recovered <=> events[i].cubeTimestamp = Null)

(* C3 witness: the sink received a real-time move, then two moves recovered
   from a history frame, then the real-time move that had waited behind the
   gap, with consecutive serials (the 5, 6, 7, 8 of the claim's example). *)
C3_Witness ==
    \E i \in DOMAIN events :
        /\ i + 3 \in DOMAIN events
        /\ \A k \in 0 .. 3 : IsMove(events[i + k])
        /\ \A k \in 1 .. 3 : events[i + k].serial = And8(events[i].serial + k)
        /\ ~events[i].recovered /\ events[i].localTimestamp # Null
        /\ events[i + 1].recovered /\ events[i + 1].localTimestamp = Null
        /\ events[i + 2].recovered /\ events[i + 2].cubeTimestamp = Null
        /\ ~events[i + 3].recovered /\ events[i + 3].cubeTimestamp # Null

(* C8: the handling of a notification begins only when no earlier
   notification's handler is still in progress. *)
C8_HandlersSerialized == [][nframes' # nframes => inflight = <<>>]_vars


(* C2 (as claimed): once the moves s .. s+k have all arrived, in whatever
   order, and no handler is in progress, the MOVE events emitted are exactly
   s, s+1, ..., s+k in that order. *)
C2_AnyArrivalOrderEmitsAll ==
    \A k \in 0 .. MaxPermK :
        (/\ lastSerial # NoSerial
         /\ inflight = <<>>
         /\ ArrivedSerials = {PermSerial(j) : j \in 1 .. k + 1})
        => /\ Len(DeliveredMoves) = k + 1
           /\ \A j \in 1 .. k + 1 : DeliveredMoves[j].serial = PermSerial(j)

(* C2 (amended): whatever the arrival order, the MOVE events emitted are
   s, s+1, ... in that order, up to the first move that arrives before its
   predecessor: that move is not the one the sink waits for, it stays at the
   head of the move buffer, and nothing is emitted while a move is buffered. *)
C2_EmitsAscendingPrefix ==
    /\ [](/\ \A j \in DOMAIN DeliveredMoves : DeliveredMoves[j].serial = PermSerial(j)
          /\ moveBuffer # <<>> =>
                Head(moveBuffer).serial # PermSerial(Len(DeliveredMoves) + 1))
    /\ [][moveBuffer # <<>> => (events' = events /\ moveBuffer' # <<>>)]_vars

(* C2 witness: s arrived first and was emitted, then two later moves arrived
   out of order and wait in the buffer. *)
C2_Witness ==
    /\ Len(DeliveredMoves) = 1
    /\ Len(moveBuffer) >= 2
    /\ inflight = <<>>

DisconnectCalls == Count("disconnect", oplog)

(* C4 (as claimed): no frame is fully processed leaving more than BufferLimit
   moves in the move buffer without disconnect having been invoked. *)
C4_OverflowAlwaysDisconnects ==
    (inflight = <<>> /\ Len(moveBuffer) > BufferLimit) => DisconnectCalls > 0

(* C4 (amended): whenever the handler of a real-time move frame finishes, i.e.
   evictMoveBuffer called with the connection returns, with more than
   BufferLimit moves in the move buffer, the driver invokes conn.disconnect(). *)
C4_MoveFrameOverflowDisconnects ==
    [][(/\ Len(moveBuffer') > BufferLimit
        /\ \/ \E i \in DOMAIN inflight : inflight[i].kind = "move" /\ WriteDone(i)
           \/ \E f \in DesyncMoves : NotifyMove(f) /\ inflight' = inflight)
       => Count("disconnect", oplog') = DisconnectCalls + 1]_vars

(* C4 witness: the buffer holds more than BufferLimit moves and the driver has
   invoked disconnect. *)
C4_Witness == Len(moveBuffer) > BufferLimit /\ DisconnectCalls > 0


(* ------------------------------------------------------------------ *)
(* Session claims                                                      *)
(* ------------------------------------------------------------------ *)
DisconnectEvents == SelectSeq(events, IsDisconnectEvent)
IsTimerDisconnect(e) == e.type = "TIMER" /\ e.state = TimerDisconnectState
TimerDisconnectEvents == SelectSeq(events, IsTimerDisconnect)

(* C5: no call of disconnect() raises an error (an exception or a rejected
   promise), however often it is called and whatever disconnected the session
   before, and the sink never receives a second DISCONNECT event. *)
C5_DisconnectIdempotent ==
    /\ "disconnect" \notin errors
    /\ Len(DisconnectEvents) <= 1
    /\ Len(TimerDisconnectEvents) <= 1

(* The position of the first call of step x in oplog, 0 when it was not made. *)
Pos(x) ==
    IF \E i \in DOMAIN oplog : oplog[i] = x
    THEN CHOOSE i \in DOMAIN oplog : oplog[i] = x /\ \A j \in 1 .. i - 1 : oplog[j] # x
    ELSE 0

(* Step y is made only after step x. *)
Before(x, y) == Pos(y) # 0 => (Pos(x) # 0 /\ Pos(x) < Pos(y))

(* C6 (as claimed): on every session the steps of a disconnect are made in the
   order unregister, stop notifications, emit DISCONNECT, close the sink, close
   the transport. *)
C6_StepsInClaimedOrder ==
    /\ Before("removeListeners", "stopNotifications")
    /\ Before("stopNotifications", "next")
    /\ Before("next", "unsubscribe")
    /\ Before("unsubscribe", "gatt.disconnect")

(* C6 (amended): the timer session makes the steps in the claimed order; the
   cube session unregisters, emits DISCONNECT, closes the sink, and only then
   asks to stop notifications; both close the transport last. *)
C6_StepsInCodeOrder ==
    IF dev = "timer"
    THEN /\ Before("removeListeners", "stopNotifications")
         /\ Before("stopNotifications", "next")
         /\ Before("next", "unsubscribe")
         /\ Before("unsubscribe", "gatt.disconnect")
    ELSE /\ Before("removeListeners", "next")
         /\ Before("next", "unsubscribe")
         /\ Before("unsubscribe", "stopNotifications")
         /\ Before("stopNotifications", "gatt.disconnect")

(* C6 witness: a cube session whose disconnect made all five steps. *)
C6_Witness ==
    /\ dev # "timer"
    /\ Pos("gatt.disconnect") # 0
    /\ Pos("next") < Pos("stopNotifications")

(* C7: on a cube session, once the link dropped, the cube sent a disconnect
   frame or the application called disconnect(), the sink has received exactly
   one DISCONNECT event, it is the last event, and from then on the sink
   receives nothing; at no time has it received two. *)
C7_OneDisconnectAndLast ==
    /\ [](dev # "timer" =>
            /\ Len(DisconnectEvents) <= 1
            /\ (~disconnectListener \/ sink = "closed") =>
                  /\ Len(DisconnectEvents) = 1
                  /\ IsDisconnectEvent(events[Len(events)]))
    /\ [][(dev # "timer" /\ Len(DisconnectEvents) = 1) => events' = events]_vars

(* C7 witness: after the DISCONNECT event a handler that had been waiting for
   its history-request write tried to deliver its events and was refused, and a
   second disconnect() was attempted. *)
C7_Witness ==
    /\ dev # "timer"
    /\ Len(DisconnectEvents) = 1
    /\ "deliver" \in errors
    /\ DisconnectCalls >= 2

(* C10: a valid timer frame handled while the state listener is registered
   produces its timer event at the sink, whatever frames were received before
   it. *)
C10_InvalidFrameDropped ==
    [][\A d \in SessionTimerFrames :
          (TimerNotify(d) /\ validateEventData(d) /\ ~BuildThrows(d))
              => events' = Append(events, buildTimerEvent(d))]_vars

(* ------------------------------------------------------------------ *)
(* Frame rejection                                                     *)
(* ------------------------------------------------------------------ *)
(* The event types each driver has a branch for. *)
KnownTypes ==
    IF dev = "gen2" THEN {1, 2, 4, 5, 9, 13}
    ELSE IF dev = "gen3" THEN {1, 6, 2, 7, 16, 17}
    ELSE {1, 209, 237, 236, 239, 234} \cup HwTags

(* The frames the claim says are rejected. *)
Rejected(f) ==
    \/ f.len < MinFrameLen
    \/ dev = "gen3" /\ (f.magic # Gen3Magic \/ f.dataLength = 0)
    \/ f.type \notin KnownTypes

(* C9: the handling of a rejected frame delivers no event, writes nothing to
   the cube, disconnects nothing and leaves the driver state unchanged. *)
C9_RejectedFrameChangesNothing ==
    [][\A f \in FrameAlphabet :
          (Rejected(f) /\ Notify(f)) => UNCHANGED <<driverVars, sessionVars, writes, inflight>>]_vars

(* ------------------------------------------------------------------ *)
(* Timer claims                                                        *)
(* ------------------------------------------------------------------ *)
(* C11: on a timer session, when the link drops while the application has not
   called disconnect(), the disconnectAction the drop starts delivers a
   DISCONNECT timer event to the sink, whatever frames were received before;
   and once a DISCONNECT event is at the sink it stays the last event. *)
C11_DropDeliversDisconnect ==
    /\ [][(TimerDisconnectDone /\ ncalls = 0)
            => /\ Len(TimerDisconnectEvents') = 1
               /\ IsTimerDisconnect(events'[Len(events')])]_vars
    /\ []((dev = "timer" /\ TimerDisconnectEvents # <<>>)
            => IsTimerDisconnect(events[Len(events)]))

(* CRC-16/CCITT-FALSE by its definition: the register starts at 0xFFFF; the
   message bits enter most significant first; when the bit shifted out of the
   register differs from the message bit the polynomial 0x1021 is added. *)
CrcCcittFalse(bytes) ==
    LET n == 8 * Len(bytes)
        bit(i) == (bytes[((i - 1) \div 8) + 1] \div (2 ^ (7 - ((i - 1) % 8)))) % 2
        reg[i \in 0 .. n, r \in 0 .. Word16 - 1] ==
            IF i = n THEN r
            ELSE reg[i + 1, IF (r \div 32768) # bit(i + 1)
                            THEN Xor((r * 2) % Word16, CrcPoly)
                            ELSE (r * 2) % Word16]
    IN reg[0, CrcInit]

(* The frames the claim says validation accepts. *)
Accepts(d) ==
    /\ Len(d) >= 2
    /\ d[1] = TimerMagic
    /\ d[Len(d) - 1] + 256 * d[Len(d)] = CrcCcittFalse(SubSeq(d, 3, Len(d) - 2))

(* C12: validation accepts a frame exactly when it is non-empty, starts with
   0xFE and ends with the little-endian CRC-16/CCITT-FALSE of the bytes from
   index 2 up to the CRC; a rejected frame stops the sink, an accepted one does
   not, and only an accepted frame puts a timer event in the sink. *)
C12_AcceptsIffMagicAndCrc ==
    [][\A d \in TimerAlphabet :
          TimerNotify(d) =>
              /\ validateEventData(d) <=> Accepts(d)
              /\ sink = "open" => (sink' = "errored" <=> ~Accepts(d))
              /\ events' # events => Accepts(d)]_vars

(* C12 witness: an accepted frame put its event in the sink and a later frame
   was rejected. *)
C12_Witness ==
    /\ dev = "timer"
    /\ Len(events) = 1
    /\ sink = "errored"
    /\ nframes = 2

(* C13: every timer event at the sink has one of the eight states 0..7. *)
C13_StateIsOneOfEight ==
    \A i \in DOMAIN events : events[i].type = "TIMER" => events[i].state \in 0 .. 7

(* C14: a timer event at the sink carries a recorded time exactly when its
   state is STOPPED; the time of an event built from frame d is minutes d[4],
   seconds d[5], milliseconds the little-endian word d[6], d[7] (offsets from
   0), and asTimestamp = 60000*minutes + 1000*seconds + milliseconds; the bytes
   0, 12, 0x64, 0x00 give 12100. *)
C14_RecordedTimeOnlyWhenStopped ==
    /\ [](\A i \in DOMAIN events :
             events[i].type = "TIMER" =>
                 (events[i].recordedTime # Null <=> events[i].state = TimerStopped))
    /\ [][\A d \in TimerAlphabet :
             (TimerNotify(d) /\ events' # events /\ d[4] = TimerStopped) =>
                 LET t == events'[Len(events')].recordedTime[1]
                 IN /\ t.minutes = d[5]
                    /\ t.seconds = d[6]
                    /\ t.milliseconds = d[7] + 256 * d[8]
                    /\ t.asTimestamp = 60000 * d[5] + 1000 * d[6] + d[7] + 256 * d[8]
                    /\ SubSeq(d, 5, 8) = <<0, 12, 100, 0>> => t.asTimestamp = 12100]_vars

(* C14 witness: the sink holds the STOPPED event of the frame with the time
   bytes 0, 12, 0x64, 0x00 and one of a frame whose milliseconds word has a
   high byte. *)
C14_Witness ==
    /\ \E i \in DOMAIN events :
          /\ events[i].state = TimerStopped
          /\ events[i].recordedTime # Null
          /\ events[i].recordedTime[1].asTimestamp = 12100
    /\ \E i \in DOMAIN events :
          /\ events[i].state = TimerStopped
          /\ events[i].recordedTime # Null
          /\ events[i].recordedTime[1].milliseconds > 255

(* ------------------------------------------------------------------ *)
(* Cube driver claims                                                  *)
(* ------------------------------------------------------------------ *)
(* C15: on every driver a MOVE event at the sink comes after a FACELETS event;
   while lastSerial is -1 the move buffer is empty, and a move frame or a
   history frame handled then delivers nothing and leaves the buffer empty. *)
C15_NoMoveBeforeFacelets ==
    /\ [](/\ \A i \in DOMAIN events :
                IsMove(events[i]) => \E j \in 1 .. i - 1 : IsFacelets(events[j])
          /\ lastSerial = NoSerial => moveBuffer = <<>>)
    /\ [][\A f \in StartMoves \cup StartMoves2 \cup StartHistories :
             (lastSerial = NoSerial /\ (NotifyMove(f) \/ NotifyMove2(f) \/ NotifyHistory(f)))
                 => (events' = events /\ moveBuffer' = <<>> /\ lastSerial' = NoSerial)]_vars

(* C15 witness: two frames, moves or history responses, were handled before
   any facelets snapshot and nothing was delivered. *)
C15_Witness ==
    /\ lastSerial = NoSerial
    /\ nframes >= 2
    /\ events = <<>>

(* C16: a Gen2 move frame with serial S handled when lastSerial = L (not -1)
   delivers exactly diff = min((S - L) mod 256, 7) MOVE events, with the
   serials S-diff+1, ..., S in that order; only the last of them has a
   localTimestamp, the earlier ones have null. *)
C16_Gen2EmitsDiffMoves ==
    [][\A f \in Gen2MoveFrames :
          (NotifyMove2(f) /\ lastSerial # NoSerial) =>
              LET diff == Min(And8(f.serial - lastSerial), 7)
              IN /\ Len(NewEvents) = diff
                 /\ \A k \in 1 .. diff :
                       /\ IsMove(NewEvents[k])
                       /\ NewEvents[k].serial = And8(f.serial - diff + k)
                       /\ NewEvents[k].localTimestamp # Null <=> k = diff]_vars

(* C16 witness: one frame delivered seven moves, six without a localTimestamp
   and then the freshest with one. *)
C16_Witness ==
    \E i \in DOMAIN events :
        /\ i + 6 \in DOMAIN events
        /\ \A k \in 0 .. 6 : IsMove(events[i + k])
        /\ \A k \in 0 .. 5 : events[i + k].localTimestamp = Null
        /\ events[i + 6].localTimestamp # Null
        /\ \A k \in 1 .. 6 : events[i + k].serial = And8(events[i].serial + k)

(* The serial the delivered run of moves has reached: that of the last MOVE
   event, before the first one that of the first facelets snapshot. *)
Gen2RunEnd ==
    IF DeliveredMoves = <<>> THEN DeliveredFacelets[1].serial
    ELSE DeliveredMoves[Len(DeliveredMoves)].serial

(* C17 (as claimed): over any sequence of Gen2 move frames the serials of the
   MOVE events at the sink are L+1, L+2, ... with none skipped and none
   repeated, up to the serial of the latest frame. *)
C17_Gen2ContiguousRun ==
    /\ \A i \in DOMAIN DeliveredMoves :
          And8(DeliveredMoves[i].serial
               - (IF i = 1 THEN DeliveredFacelets[1].serial
                  ELSE DeliveredMoves[i - 1].serial)) = 1
    /\ lastSerial # NoSerial => lastSerial = Gen2RunEnd

(* C17 (amended): a move frame whose serial is at most 7 ahead of the last
   frame's continues the delivered run without a skip or a repeat, up to its
   own serial; a frame further ahead (or behind) delivers only its seven latest
   serials; either way the run ends at the serial of the latest frame. *)
C17_ContiguousWithinSeven ==
    /\ [](lastSerial # NoSerial => lastSerial = Gen2RunEnd)
    /\ [][\A f \in Gen2MoveFrames :
             (NotifyMove2(f) /\ lastSerial # NoSerial) =>
                 LET ahead == And8(f.serial - lastSerial)
                 IN IF ahead <= 7
                    THEN /\ Len(NewEvents) = ahead
                         /\ \A k \in 1 .. ahead :
                               NewEvents[k].serial = And8(Gen2RunEnd + k)
                    ELSE /\ Len(NewEvents) = 7
                         /\ \A k \in 1 .. 7 :
                               NewEvents[k].serial = And8(f.serial - 7 + k)]_vars

(* C17 witness: three frames, each at most 7 ahead of the one before, have
   delivered the run 251, 252, ..., 2 across the wrap. *)
C17_Witness ==
    /\ Len(DeliveredMoves) = 8
    /\ \A i \in DOMAIN DeliveredMoves :
          DeliveredMoves[i].serial = And8(DeliveredFacelets[1].serial + i)
    /\ Cardinality({DeliveredMoves[i].timestamp : i \in DOMAIN DeliveredMoves}) >= 1
    /\ Len(SelectSeq(DeliveredMoves, LAMBDA e : e.localTimestamp # Null)) = 3

(* The tags hwInfo holds a value for. *)
HwHeld == {t \in HwTags : hwInfo[t] # Null}

(* C18: a Gen4 hardware sub-frame emits a HARDWARE event only when hwInfo then
   holds all four tags (0xFA, 0xFC, 0xFD, 0xFE) and nothing while one is
   missing; the sub-frame that brings the fourth tag emits exactly one
   HARDWARE event carrying the four stored fields, with gyroSupported true
   iff the stored name is "GAN12uiM". *)
C18_HardwareOnFourth ==
    [][\A f \in HwFrames :
          NotifyHardware(f) =>
              /\ NewEvents # <<>> <=> (\A t \in HwTags : hwInfo'[t] # Null)
              /\ (\E t \in HwTags : hwInfo'[t] = Null) => events' = events
              /\ (Cardinality(HwHeld) = 3 /\ f.type \in HwTags \ HwHeld) =>
                    /\ Len(NewEvents) = 1
                    /\ NewEvents[1].type = "HARDWARE"
                    /\ NewEvents[1].productDate = Some(IF f.type = HwDate THEN f.hw ELSE hwInfo[HwDate][1])
                    /\ NewEvents[1].hardwareName = Some(IF f.type = HwName THEN f.hw ELSE hwInfo[HwName][1])
                    /\ NewEvents[1].softwareVersion = Some(IF f.type = HwSoftware THEN f.hw ELSE hwInfo[HwSoftware][1])
                    /\ NewEvents[1].hardwareVersion = Some(IF f.type = HwHardware THEN f.hw ELSE hwInfo[HwHardware][1])
                    /\ NewEvents[1].gyroSupported <=> NewEvents[1].hardwareName = Some("GAN12uiM")]_vars

(* C18 witness: the four sub-frames were fed once each, in some order, and the
   sink holds exactly one event, the HARDWARE event of a cube without gyro. *)
C18_Witness ==
    /\ nframes = 4
    /\ \A t \in HwTags : hwInfo[t] # Null
    /\ Len(events) = 1
    /\ events[1].type = "HARDWARE"
    /\ events[1].hardwareName = Some("GANi4")
    /\ ~events[1].gyroSupported
    /\ events[1].productDate = Some("2023-05-17")

(* C19: every history request written to the transport carries an odd start
   serial in 0..255, an even count, and count <= serial + 1, whether a gap at
   the buffer head or a facelets snapshot caused it. *)
C19_RequestWindowNeverWraps ==
    \A i \in DOMAIN writes :
        /\ writes[i].serial \in 0 .. 255
        /\ writes[i].serial % 2 = 1
        /\ writes[i].count % 2 = 0
        /\ writes[i].count <= writes[i].serial + 1

(* C20: a rejected history-request write is swallowed: the handler that
   awaited it raises nothing, the events it had evicted are delivered, and the
   driver is left as after a successful write; and every real-time move frame
   handled while a gap stays at the buffer head writes a history request for
   that head again. *)
C20_WriteFailureSwallowed ==
    /\ [][\A i \in 1 .. MaxInflight :
             WriteFailed(i) =>
                 /\ errors' = errors
                 /\ sink = "open" => NewEvents = inflight[i].evicted
                 /\ <<moveBuffer, serial, lastLocalTimestamp, hwInfo>>' =
                        <<moveBuffer, serial, lastLocalTimestamp, hwInfo>>
                 /\ lastSerial' = IF lastSerial = NoSerial THEN inflight[i].serial ELSE lastSerial
                 /\ writes' = writes
                 /\ <<stateListener, connected>>' = <<stateListener, connected>>]_vars
    /\ [][\A f \in WriteMoves :
             (/\ NotifyMove(f)
              /\ lastSerial # NoSerial
              /\ moveBuffer' # <<>>
              /\ And8(Head(moveBuffer').serial - lastSerial') > 1) =>
                 writes' = Append(writes,
                                  HistoryRequest(Head(moveBuffer').serial,
                                                 And8(Head(moveBuffer').serial - lastSerial')))]_vars

(* C20 witness: the first request, for a gap at the buffer head, was rejected;
   so was the second, sent for a late facelets snapshot, whose FACELETS event
   reached the sink all the same; and the next move frame, finding the gap
   still there, wrote the first request again.  Nothing was raised. *)
C20_Witness ==
    /\ writeFailures = <<1, 2>>
    /\ Len(writes) = 3
    /\ writes[3] = writes[1]
    /\ Len(DeliveredFacelets) = 2
    /\ moveBuffer # <<>>
    /\ errors = {}

(* C21: sendCubeCommand with a type other than REQUEST_FACELETS,
   REQUEST_HARDWARE, REQUEST_BATTERY and REQUEST_RESET writes no message,
   raises no error and leaves the driver (and the session) as it was; a
   message is written exactly for the four known types. *)
C21_UnknownCommandIsNoOp ==
    /\ [](\A i \in DOMAIN commandLog :
             commandLog[i].written # Null <=> commandLog[i].type \in KnownCommands)
    /\ [][\A type \in CommandTypes \ KnownCommands :
             SendCubeCommand(type) =>
                 /\ commandLog'[Len(commandLog')].written = Null
                 /\ driverVars' = driverVars
                 /\ sessionVars' = sessionVars
                 /\ <<inflight, writes, writeFailures>>' = <<inflight, writes, writeFailures>>]_vars

(* C21 witness: a Gen4 driver holding hardware sub-frames and a first facelets
   serial went through a REQUEST_MOVE_HISTORY command: nothing was written and
   the driver state is still there. *)
C21_Witness ==
    /\ dev = "gen4"
    /\ commandLog # <<>>
    /\ commandLog[Len(commandLog)] = [type |-> "REQUEST_MOVE_HISTORY", written |-> Null]
    /\ hwInfo[HwName] # Null
    /\ lastSerial = 7
    /\ errors = {}

(* C22: every MOVE event at the sink has face in 0..5, direction in {0, 1}
   and serial in 0..255, whatever the frames held. *)
C22_MoveFieldsInRange ==
    \A i \in DOMAIN events :
        IsMove(events[i]) =>
            /\ events[i].face \in 0 .. 5
            /\ events[i].direction \in {0, 1}
            /\ events[i].serial \in 0 .. 255

(* C23: a facelets frame with any values in its corner and edge fields raises
   no error and yields exactly one FACELETS event carrying the decoded CP, CO,
   EP and EO, also when CP[7] or EP[11] come out of range. *)
C23_InvalidStateEmittedAsIs ==
    /\ []("facelets" \notin errors)
    /\ [][\A f \in FaceletFrames :
             ((NotifyFacelets(f) /\ inflight' = inflight) \/ NotifyFacelets2(f)) =>
                 /\ Len(NewEvents) = 1
                 /\ NewEvents[1].type = "FACELETS"
                 /\ NewEvents[1].state = DecodeState(f)]_vars

(* C24: in every FACELETS event the state has 8 corners and 12 edges with
   sum(CP) = 28, sum(EP) = 66, sum(CO) a multiple of 3 and sum(EO) a multiple
   of 2, the last element of each array being the one the sums give. *)
C24_ParityClosure ==
    \A i \in DOMAIN events :
        IsFacelets(events[i]) =>
            LET st == events[i].state
            IN /\ Len(st.CP) = 8 /\ Len(st.CO) = 8 /\ Len(st.EP) = 12 /\ Len(st.EO) = 12
               /\ Sum(st.CP) = 28
               /\ Sum(st.EP) = 66
               /\ Sum(st.CO) % 3 = 0
               /\ Sum(st.EO) % 2 = 0
               /\ st.CO[8] \in 0 .. 2
               /\ st.EO[12] \in 0 .. 1

(* C24 witness: events of a scrambled cube, of a frame with a twist field of 3
   and of a frame with a repeated edge have been delivered. *)
C24_Witness ==
    /\ \E i \in DOMAIN events :
          IsFacelets(events[i]) /\ events[i].state.CO = <<1, 2, 0, 2, 1, 1, 0, 2>>
    /\ \E i \in DOMAIN events :
          IsFacelets(events[i]) /\ events[i].state.CO = <<3, 3, 0, 0, 0, 0, 1, 2>>
    /\ \E i \in DOMAIN events :
          IsFacelets(events[i]) /\ events[i].state.EP[12] = 10 /\ events[i].state.EO[12] = 1

(* The FACELETS event of the solved cube with serial 0, sent at time t. *)
SolvedEvent(t) ==
    [type |-> "FACELETS", serial |-> 0, timestamp |-> t,
     facelets |-> "UUUUUUUUURRRRRRRRRFFFFFFFFFDDDDDDDDDLLLLLLLLLBBBBBBBBB",
     state |-> [CP |-> <<0, 1, 2, 3, 4, 5, 6, 7>>,
                CO |-> <<0, 0, 0, 0, 0, 0, 0, 0>>,
                EP |-> <<0, 1, 2, 3, 4, 5, 6, 7, 8, 9, 10, 11>>,
                EO |-> <<0, 0, 0, 0, 0, 0, 0, 0, 0, 0, 0, 0>>]]

(* C29 (as claimed): the Gen2 facelets frame with serial 0, seven zero CPs,
   seven zero COs, EPs 0..10 and eleven zero EOs yields the one FACELETS event
   of the solved cube. *)
C29_ZeroCornersDecodeSolved ==
    [][NotifyFacelets2(MkFaceletsOf(0, <<0, 0, 0, 0, 0, 0, 0>>, <<0, 0, 0, 0, 0, 0, 0>>,
                                    <<0, 1, 2, 3, 4, 5, 6, 7, 8, 9, 10>>,
                                    <<0, 0, 0, 0, 0, 0, 0, 0, 0, 0, 0>>))
          => (NewEvents = <<SolvedEvent(clock)>> /\ errors' = errors)]_vars

(* C29 (amended): the Gen2 facelets frame with serial 0, CPs 0..6, seven zero
   COs, EPs 0..10 and eleven zero EOs yields the one FACELETS event of the
   solved cube. *)
C29_SolvedFrameDecodes ==
    [][NotifyFacelets2(MkFaceletsOf(0, <<0, 1, 2, 3, 4, 5, 6>>, <<0, 0, 0, 0, 0, 0, 0>>,
                                    <<0, 1, 2, 3, 4, 5, 6, 7, 8, 9, 10>>,
                                    <<0, 0, 0, 0, 0, 0, 0, 0, 0, 0, 0>>))
          => (NewEvents = <<SolvedEvent(clock)>> /\ errors' = errors)]_vars

(* C29 witness: a Gen2 driver has delivered the solved-cube event as its
   first event. *)
C29_Witness ==
    /\ dev = "gen2"
    /\ events # <<>>
    /\ events[1] = SolvedEvent(0)
    /\ errors = {}

(* C27: crc16ccit returns a value in 0..0xFFFF, the CRC-16/CCITT-FALSE of its
   argument (polynomial 0x1021, initial value 0xFFFF, no reflection, no final
   XOR), and 0x29B1 for the nine bytes "123456789". *)
C27_CrcIsCcittFalse ==
    result # Null =>
        /\ result[1] \in 0 .. 65535
        /\ result[1] = CrcCcittFalse(arg)
        /\ arg = <<49, 50, 51, 52, 53, 54, 55, 56, 57>> => result[1] = 10673

(* C27 witness: crc16ccit has returned for "123456789". *)
C27_Witness ==
    /\ arg = <<49, 50, 51, 52, 53, 54, 55, 56, 57>>
    /\ result = <<10673>>

(* s holds each of 0 .. Len(s)-1 exactly once. *)
IsPermutation(s) == {s[i] : i \in DOMAIN s} = 0 .. Len(s) - 1

(* C26: for CP and EP permutations and orientation sums that are multiples of
   3 and of 2, toKociembaFacelets returns 54 characters, nine of each of U, R,
   F, D, L and B, with the six centres (indices 4, 13, 22, 31, 40, 49) those
   of the solved cube. *)
C26_NineOfEachFace ==
    (/\ result # Null
     /\ IsPermutation(arg.cp) /\ IsPermutation(arg.ep)
     /\ Sum(arg.co) % 3 = 0 /\ Sum(arg.eo) % 2 = 0) =>
        LET chars == result[1].chars
        IN /\ Len(chars) = 54
           /\ \A c \in {"U", "R", "F", "D", "L", "B"} :
                 Cardinality({i \in 1 .. 54 : chars[i] = c}) = 9
           /\ <<chars[5], chars[14], chars[23], chars[32], chars[41], chars[50]>>
                 = <<"U", "R", "F", "D", "L", "B">>

(* C26 witness: the call has returned for the state after F R, with the
   string the library's documentation gives for it. *)
C26_Witness ==
    /\ result # Null
    /\ arg.cp = <<0, 5, 2, 1, 7, 4, 6, 3>>
    /\ result[1].facelets = "UUFUUFLLFUUURRRRRRFFRFFDFFDRRBDDBDDBLLDLLDLLDLBBUBBUBB"

(* C28: cubeTimestampLinearFit leaves its input unchanged: after the call
   every move of the list passed in has the face, direction, move,
   localTimestamp and cubeTimestamp (null ones included) it had before. *)
C28_FitLeavesInputUnchanged ==
    result # Null => result[1].cubeMoves = arg

(* s lies strictly between a and b going up from a modulo 256. *)
InOpenInterval(a, b, s) ==
    /\ (s - a) % 256 > 0
    /\ (s - a) % 256 < (b - a) % 256

(* C30: offered to a non-empty buffer, a history move is put at the buffer
   head if and only if no buffered move has its serial, its serial lies in the
   open interval (lastSerial, head.serial) modulo 256 and its serial is
   (head.serial - 1) mod 256; otherwise the buffer is left as it was. *)
C30_InjectAtHeadIff ==
    (result # Null /\ arg.buf # <<>>) =>
        LET suitable ==
                /\ \A i \in DOMAIN arg.buf : arg.buf[i].serial # arg.move.serial
                /\ InOpenInterval(arg.last, Head(arg.buf).serial, arg.move.serial)
                /\ arg.move.serial = (Head(arg.buf).serial - 1) % 256
        IN /\ suitable => result[1] = <<arg.move>> \o arg.buf
           /\ ~suitable => result[1] = arg.buf

(* C30 witness: with lastSerial 254 and moves 2 and 3 buffered, history move 1
   has been put before them. *)
C30_Witness ==
    /\ result # Null
    /\ arg.last = 254 /\ Len(arg.buf) = 2 /\ arg.buf[1].serial = 2
    /\ arg.move.serial = 1
    /\ Len(result[1]) = 3 /\ result[1][1].serial = 1 /\ result[1][1].recovered

(* C25: for a message of 16 to 64 bytes, also one whose first and last
   16-byte chunks overlap, decrypt(encrypt(msg)) equals msg, and neither call
   has changed the buffer it was given. *)
C25_EnvelopeRoundTrip ==
    (/\ result # Null
     /\ Len(arg.msg) >= 16 /\ Len(arg.msg) <= 64) =>
        /\ ~result[1].encrypted.throws
        /\ result[1].encrypted.data = arg.msg
        /\ result[1].decrypted # Null =>
              /\ result[1].decrypted[1].res = arg.msg
              /\ result[1].decrypted[1].data = result[1].encrypted.res

(* C25 witness: a 20-byte message, whose chunks at 0 and at 4 overlap, has
   been encrypted to the bytes AES-128-CBC gives and decrypted back. *)
C25_Witness ==
    /\ result # Null
    /\ arg.msg = <<28, 35, 42, 49, 56, 63, 70, 77, 84, 91, 98, 105, 112, 119, 126, 133,
                   140, 147, 154, 161>>
    /\ result[1].encrypted.res = <<10, 30, 219, 16, 253, 100, 233, 159, 225, 115, 168, 54,
                                   119, 107, 126, 90, 25, 86, 144, 107>>
    /\ result[1].decrypted # Null
    /\ result[1].decrypted[1].res = arg.msg

(* C31: offered to an empty buffer, a history move is accepted if and only if
   its serial lies in the half-open interval (lastSerial, serial] modulo 256;
   a move at lastSerial or outside the interval leaves the buffer empty. *)
C31_EmptyBufferAcceptsHalfOpen ==
    (result # Null /\ arg.buf = <<>>) =>
        LET missed ==
                /\ (arg.move.serial - arg.last) % 256 > 0
                /\ (arg.move.serial - arg.last) % 256 <= (arg.cur - arg.last) % 256
        IN /\ missed => result[1] = <<arg.move>>
           /\ ~missed => result[1] = <<>>

(* C31 witness: with lastSerial 254 and current serial 1, the history move
   with serial 1, the end of the interval, has been accepted. *)
C31_Witness ==
    /\ result # Null
    /\ arg.buf = <<>> /\ arg.last = 254 /\ arg.cur = 1 /\ arg.move.serial = 1
    /\ result[1] = <<arg.move>>

(* A facelets frame is notified, or a facelets handler resumes after its write. *)
SnapshotStep ==
    \/ \E f \in SnapshotFacelets : NotifyFacelets(f)
    \/ \E i \in DOMAIN inflight : inflight[i].kind = "facelets" /\ WriteDone(i)

(* The history request the snapshot with serial cur is to send, or none. *)
SnapshotRequest(cur) ==
    LET diff == (cur - lastSerial) % 256
    IN IF /\ lastSerial # -1
          /\ lastLocalTimestamp # Null
          /\ clock - lastLocalTimestamp[1] > 500
          /\ diff > 0
          /\ cur # 0
       THEN <<HistoryRequest(IF moveBuffer # <<>> THEN Head(moveBuffer).serial
                             ELSE (cur + 1) % 256, diff + 1)>>
       ELSE <<>>

(* C32: a facelets snapshot sends a history request if and only if lastSerial
   is not -1, a real-time move has been seen, more than 500 ms have passed
   since it, diff = (serial - lastSerial) mod 256 is positive and the serial is
   not 0; the request is for the serial of the buffer head, or (serial + 1)
   mod 256 with an empty buffer, and diff + 1 moves.  The snapshot never
   changes a lastSerial that is set, nor the move buffer. *)
C32_SnapshotRequestsIff ==
    [][SnapshotStep =>
          /\ writes' = writes \o (IF nframes' # nframes THEN SnapshotRequest(serial')
                                 ELSE <<>>)
          /\ moveBuffer' = moveBuffer
          /\ lastSerial # -1 => lastSerial' = lastSerial]_vars

(* C32 witness: after the snapshot with serial 3, a move with serial 6 kept
   behind the gap and more than 500 ms, the snapshot with serial 5 has asked
   for the history from the buffer head: 4 moves from serial 5, as
   requestMoveHistory aligns serial 6 and count 3. *)
C32_Witness ==
    /\ nframes = 3
    /\ lastSerial = 3
    /\ lastLocalTimestamp # Null
    /\ clock > 500
    /\ moveBuffer # <<>> /\ Head(moveBuffer).serial = 6
    /\ serial = 5
    /\ Len(writes) = 2
    /\ writes[2] = [serial |-> 5, count |-> 4]

(* The indices of the moves of the argument whose cubeTimestamp is known. *)
KnownAt == {j \in DOMAIN arg : arg[j].cubeTimestamp # Null}

(* What the pre-pass is to leave at index i: the known value; else 50 ms less
   per step than the next known one; else 50 ms more per step than the last
   known one; else null. *)
PrePassAt(i) ==
    IF i \in KnownAt THEN arg[i].cubeTimestamp
    ELSE IF \E j \in KnownAt : j > i
    THEN LET j == CHOOSE j \in KnownAt : j > i /\ \A k \in KnownAt : k > i => j <= k
         IN Some(arg[j].cubeTimestamp[1] - 50 * (j - i))
    ELSE IF \E j \in KnownAt : j < i
    THEN LET j == CHOOSE j \in KnownAt : j < i /\ \A k \in KnownAt : k < i => k <= j
         IN Some(arg[j].cubeTimestamp[1] + 50 * (i - j))
    ELSE Null

(* C33: on a list of at least 2 moves the pre-pass of cubeTimestampLinearFit
   sets each null cubeTimestamp before a known one to the next value minus 50,
   through a run of nulls, then each remaining null after a known one to the
   previous value plus 50; so with at least one known cubeTimestamp none is
   null when the regression starts. *)
C33_PrePassFillsNulls ==
    (result # Null /\ Len(arg) >= 2) =>
        /\ \A i \in DOMAIN arg : result[1].cubeMoves[i].cubeTimestamp = PrePassAt(i)
        /\ KnownAt # {} => \A i \in DOMAIN arg : result[1].cubeMoves[i].cubeTimestamp # Null

(* C33 witness: the fit has run on two recovered moves followed by a move
   stamped 220, and has stamped them 120 and 170. *)
C33_Witness ==
    /\ result # Null
    /\ Len(arg) = 3
    /\ arg[1].cubeTimestamp = Null /\ arg[2].cubeTimestamp = Null
    /\ arg[3].cubeTimestamp = Some(220)
    /\ result[1].cubeMoves[1].cubeTimestamp = Some(120)
    /\ result[1].cubeMoves[2].cubeTimestamp = Some(170)

(* C35: getBitWord raises an error for every bit length outside 1..8, 16 and
   32 (0, negative lengths and 9..15 included), and for none inside. *)
C35_ErrorOutsideSupportedLengths ==
    result # Null =>
        (result[1].throws <=> arg.bitLength \notin (1 .. 8) \cup {16, 32})

(* The eight bits of a message from bit offset o on, as a byte. *)
ByteAtBit(message, o) ==
    LET k == (o \div 8) + 1
        r == o % 8
    IN ((message[k] * (2 ^ r)) % 256) + (IF r = 0 THEN 0 ELSE message[k + 1] \div (2 ^ (8 - r)))

(* The 16-bit word at bit offset 47 + 16 i of a message, the byte at the lower
   offset being its low-order byte (little-endian) or its high-order byte. *)
WordOfSubRecord(message, i, littleEndian) ==
    LET first == ByteAtBit(message, 47 + 16 * i)
        second == ByteAtBit(message, 55 + 16 * i)
    IN IF littleEndian THEN first + 256 * second ELSE 256 * first + second

(* Each move emitted for a Gen2 MOVE message carries as cubeTimestamp the
   running sum of the elapsed words of the sub-records, oldest first, a word
   of 0 counting as the host time since the last move frame. *)
ElapsedRunningSum(littleEndian) ==
    \A message \in ElapsedMessages :
        (NotifyMessage2(message) /\ lastSerial # -1) =>
            LET s == (message[1] % 16) * 16 + (message[2] \div 16)
                diff == Min((s - lastSerial) % 256, 7)
                elapsed(i) == LET word == WordOfSubRecord(message, i, littleEndian)
                              IN IF word = 0 THEN clock - lastMoveTimestamp ELSE word
                upTo(j) == Sum([k \in 1 .. j |-> elapsed(diff - k)])
            IN /\ Len(NewEvents) = diff
               /\ \A j \in 1 .. diff :
                     NewEvents[j].cubeTimestamp = Some(cubeTimestamp + upTo(j))

(* C34: the elapsed time of sub-record i of a Gen2 MOVE frame is the 16-bit
   little-endian word at bit offset 47 + 16 i; 0 is replaced by now -
   lastMoveTimestamp, and each emitted move's cubeTimestamp is the running sum
   of the elapsed values. *)
C34_ElapsedLittleEndian == [][ElapsedRunningSum(TRUE)]_vars

(* C34 (amended): the same with the word read big-endian: the byte at the
   lower bit offset is the high-order byte. *)
C34_ElapsedBigEndian == [][ElapsedRunningSum(FALSE)]_vars

(* C34 witness: after the snapshot with serial 250, the message with serial
   252 and the bytes 1, 2 in every elapsed word has given two moves, stamped
   258 and 516. *)
C34_Witness ==
    /\ dev = "gen2"
    /\ nframes = 2
    /\ Len(DeliveredMoves) = 2
    /\ DeliveredMoves[1].cubeTimestamp = Some(258)
    /\ DeliveredMoves[2].cubeTimestamp = Some(516)
    /\ DeliveredMoves[2].serial = 252

(* C36: a timer state notification never raises: whatever the frame, it is
   either rejected by validation (the subject is sent an error) or an event is
   delivered; a frame that passes the magic/CRC check is long enough for the
   state byte at index 3 and, when STOPPED, for the recorded time at index 4. *)
C36_TimerNotifyNeverRaises ==
    [][\A d \in TimerAlphabet :
          TimerNotify(d) =>
              /\ errors' = errors
              /\ (validateEventData(d) /\ sink = "open") => Len(events') = Len(events) + 1
              /\ validateEventData(d) =>
                    (Len(d) >= 4 /\ (d[4] = TimerStopped => Len(d) >= 8))]_vars

(* The MOVE_HISTORY branch on the driver state given: the frame's moves are
   offered to the buffer, then the buffer is evicted. *)
HistoryPass(f, buf, last, cur) ==
    EvictLoop(InjectFrom(0, (f.dataLength - 1) * 2, f, buf, last, cur), last, <<>>)

SerialsOf(evs) == {evs[i].serial : i \in {j \in DOMAIN evs : evs[j].type = "MOVE"}}

(* C37: a move delivered by history is emitted at most once; a history move
   already emitted or already buffered is never inserted, so the same history
   frame delivered a second time emits no MOVE event and leaves moveBuffer and
   lastSerial unchanged. *)
C37_HistoryReplayChangesNothing ==
    [][\A f \in ReconHistories :
          NotifyHistory(f) =>
              LET replay == HistoryPass(f, moveBuffer', lastSerial', serial')
              IN /\ replay.evicted = <<>>
                 /\ replay.buffer = moveBuffer'
                 /\ replay.lastSerial = lastSerial']_vars

(* The serials a pass of the MOVE_HISTORY loop has put on the head of the
   buffer before, whose result is after. *)
InsertedSerials(before, after) ==
    {after[i].serial : i \in 1 .. (Len(after) - Len(before))}

(* C37 (amended): a history move is never inserted when its serial is
   lastSerial or is already buffered, and it is emitted only as the successor
   (mod 256) of the serial emitted before it.  The same history frame
   delivered a second time emits MOVE events only when it inserts a move the
   first delivery could not place, and what it emits continues the serials
   after lastSerial. *)
C37_HistoryMoveEmittedOnce ==
    [][\A f \in ReconHistories :
          NotifyHistory(f) =>
              LET count == (f.dataLength - 1) * 2
                  injected == InjectFrom(0, count, f, moveBuffer, lastSerial, serial)
                  first == InsertedSerials(moveBuffer, injected)
                  again == InjectFrom(0, count, f, moveBuffer', lastSerial', serial')
                  second == InsertedSerials(moveBuffer', again)
                  replay == HistoryPass(f, moveBuffer', lastSerial', serial')
                  before(evs, last, i) == IF i = 1 THEN last ELSE evs[i - 1].serial
                  Successors(evs, last) ==
                      \A i \in DOMAIN evs :
                          evs[i].recovered => evs[i].serial = And8(before(evs, last, i) + 1)
              IN /\ lastSerial \notin first
                 /\ first \cap SerialsOf(moveBuffer) = {}
                 /\ Cardinality(first) = Len(injected) - Len(moveBuffer)
                 /\ Successors(NewEvents, lastSerial)
                 /\ Successors(replay.evicted, lastSerial')
                 /\ replay.evicted # <<>> => second # {}
                 /\ second = {} => (replay.buffer = moveBuffer' /\ replay.lastSerial = lastSerial')]_vars

(* C37 witness: after the snapshot 254 and the moves 0 and 2, the history
   frame 1, 0, 255, 254 has put 255 before 0 and both were emitted; move 2
   waits behind the missing 1, which the same frame would now supply. *)
C37_Witness ==
    /\ dev \in {"gen3", "gen4"}
    /\ nframes = 4
    /\ lastSerial = 0
    /\ Len(moveBuffer) = 1
    /\ moveBuffer[1].serial = 2
    /\ Len(DeliveredMoves) = 2
    /\ DeliveredMoves[1].serial = 255 /\ DeliveredMoves[1].recovered
    /\ DeliveredMoves[2].serial = 0 /\ ~DeliveredMoves[2].recovered
    /\ LET replay == HistoryPass(MkHistory(1, <<GoodNibble, GoodNibble, GoodNibble, GoodNibble>>),
                                 moveBuffer, lastSerial, serial)
       IN /\ Len(replay.evicted) = 2
          /\ replay.evicted[1].serial = 1 /\ replay.evicted[1].recovered
          /\ replay.evicted[2].serial = 2

(* C38: whenever no Gen3/Gen4 frame handler is in progress, the move buffer is
   empty or its head has a gap, (head.serial - lastSerial) mod 256 > 1: a move
   that could be delivered is never left waiting in the buffer. *)
C38_NoDeliverableMoveWaits ==
    (dev \in {"gen3", "gen4"} /\ inflight = <<>>) =>
        \/ moveBuffer = <<>>
        \/ lastSerial # NoSerial /\ And8(Head(moveBuffer).serial - lastSerial) > 1

(* C38 witness: no handler is in progress, and after a history frame has put
   a recovered move before the real-time move in the buffer, both wait behind
   a gap. *)
C38_Witness ==
    /\ dev \in {"gen3", "gen4"}
    /\ inflight = <<>>
    /\ writes # <<>>
    /\ Len(moveBuffer) = 2
    /\ moveBuffer[1].recovered /\ ~moveBuffer[2].recovered
    /\ And8(moveBuffer[1].serial - lastSerial) = 2

(* A step that delivers events does not overtake a handler of an earlier
   frame that waits for its write with events Held: a frame handled at once
   is later than every waiting handler, a resumed handler later than those
   before it in inflight. *)
DeliveryInOrder(Held(_)) ==
    Len(events') > Len(events) =>
        IF inflight' = inflight
        THEN \A k \in DOMAIN inflight : ~Held(inflight[k])
        ELSE \A i \in DOMAIN inflight :
                 (WriteDone(i) /\ \A j \in 1 .. (i - 1) : ~WriteDone(j)) =>
                     \A k \in 1 .. (i - 1) : ~Held(inflight[k])

HoldsEvents(h) == h.evicted # <<>>

(* C39: event delivery follows notification arrival order: all events of an
   earlier frame are delivered before any event of a later frame, also when
   the earlier frame's handler suspends on a history-request write. *)
C39_DeliveryFollowsArrival == [][DeliveryInOrder(HoldsEvents)]_vars

====
